---- MODULE Spec2Model ----
(***************************************************************************)
(* A model of the h-lang compiler (hlc): lexer -> parser -> C emitter.     *)
(*                                                                         *)
(* Go strings are TLA+ strings (Len, SubSeq and \o act on them), the AST   *)
(* is a tree of records tagged with the Go type name in the field "kind",  *)
(* and a Go nil is the record Nil.  The emitter's text is kept line by     *)
(* line: every write of the emitter goes through writeLine.                *)
(***************************************************************************)
EXTENDS Integers, Sequences, FiniteSets, TLC

(***************************************************************************)
(* Bounds of the model.                                                    *)
(***************************************************************************)
\* longest function body drawn for the emitter
MaxBody == 3
\* most top-level statements of a program drawn for the emitter
MaxTop == 3
\* most top-level statements of a program with statements of every kind
MaxGlobals == 3
\* Go call-stack budget, counted in nested emitDeferredStatements frames:
\* the runtime kills the process ("stack overflow") when it is exceeded.  A
\* frame entered from within another loops over the same g.deferredStmts and
\* so meets the statement that entered it again: no nesting ever returns
MaxCallDepth == 2
\* longest input, in bytes, drawn for the lexer
MaxInput == 3
\* most calls of NextToken on one lexer
MaxCalls == 6
\* most lexemes in a short source drawn for the parser
MaxTokens == 2
\* how many leading words of a longer source are replaced, one at a time
MaxVaried == 10
\* most calls of compile on one source text
MaxCompiles == 2


VARIABLES
    program,    \* Generate's argument: the sequence program.Statements
    gpc,        \* where Generate stands
    gidx,       \* index of the loop Generate is in (into program.Statements)
    g,          \* the Generator struct (plus history fields, see NewGenerator)
    sections,   \* history: which lines each part of Generate wrote
    result,     \* what Generate returned (empty before it returns)
    source,     \* the lexer's input, a sequence of bytes
    lexer,      \* the Lexer struct
    lpc,        \* "new" before lexer.New, "ready" between calls of NextToken,
                \* "panicked" once a call has panicked
    lastTok,    \* the token the last call of NextToken returned
    lexFirst,   \* history: the byte the last call of NextToken dispatched on
    toks,       \* history: the types of the tokens returned so far, in order
    srcText,    \* the source text given to the parser, and to compile
    parser,     \* the Parser struct (plus history fields, see NewParser)
    ppc,        \* "new" before parser.New, "loop" in ParseProgram's loop, "done"
                \* once it returned, "panicked" once a call has panicked
    parsed,     \* program.Statements as ParseProgram has built it so far
    printed,    \* history: the tree whose String() srcText is, if it is one
    cpc,        \* where compile stands
    compiled,   \* what compile returned: the C text and the diagnostics
    previous    \* history: what the earlier calls of compile on srcText returned

genVars == <<program, gpc, gidx, g, sections, result>>

lexVars == <<source, lexer, lpc, lastTok, lexFirst, toks>>

parseVars == <<srcText, parser, ppc, parsed, printed>>

compileVars == <<cpc, compiled, previous>>

vars == <<genVars, lexVars, parseVars, compileVars>>

\* With(val, LAMBDA x : e) is e with val for x, as LET x == val IN e is; the
\* value of val is computed at most once however often e uses x.
With(val, G(_)) == CHOOSE out \in {G(x) : x \in {val}} : TRUE

(***************************************************************************)
(* pkg/ast: the nodes.                                                     *)
(***************************************************************************)
Nil == [kind |-> "nil"]

TypeAnnotation(name, isPtr, arrayLen) ==
    [kind |-> "TypeAnnotation", Name |-> name, IsPtr |-> isPtr, ArrayLen |-> arrayLen,
     IsMap |-> FALSE, KeyType |-> Nil, ValueType |-> Nil]

\* a nil pointer of a concrete node type held in an interface value: the
\* interface is not nil, the pointer in it is
TypedNil(type) == [kind |-> "typed nil", Type |-> type]

Identifier(v) == [kind |-> "Identifier", Value |-> v]
\* Token is the Literal of the node's token: the decimal of n unless the parser sets it
IntegerLiteral(n) == [kind |-> "IntegerLiteral", Value |-> n, Token |-> ToString(n)]
\* a float64 is kept as its whole part and its first six decimals
FloatLiteral(whole, micros) ==
    [kind |-> "FloatLiteral", Value |-> <<whole, micros>>, Token |-> ""]
StringLiteral(s) == [kind |-> "StringLiteral", Value |-> s]
CharLiteral(c) == [kind |-> "CharLiteral", Value |-> c]
BooleanLiteral(b) == [kind |-> "BooleanLiteral", Value |-> b]
NullLiteral == [kind |-> "NullLiteral"]
PrefixExpression(op, right) == [kind |-> "PrefixExpression", Operator |-> op, Right |-> right]
InfixExpression(left, op, right) ==
    [kind |-> "InfixExpression", Left |-> left, Operator |-> op, Right |-> right]
PostfixExpression(left, op) == [kind |-> "PostfixExpression", Left |-> left, Operator |-> op]
AssignExpression(left, op, value) ==
    [kind |-> "AssignExpression", Left |-> left, Operator |-> op, Value |-> value]
CallExpression(fn, args) == [kind |-> "CallExpression", Function |-> fn, Arguments |-> args]
IndexExpression(left, index) == [kind |-> "IndexExpression", Left |-> left, Index |-> index]
MemberExpression(object, member) ==
    [kind |-> "MemberExpression", Object |-> object, Member |-> member]
CastExpression(targetType, value) ==
    [kind |-> "CastExpression", TargetType |-> targetType, Value |-> value]
AllocExpression(type) == [kind |-> "AllocExpression", Type |-> type]
ArrayLiteral(type, elements) == [kind |-> "ArrayLiteral", Type |-> type, Elements |-> elements]
MakeExpression(type, length, capacity) ==
    [kind |-> "MakeExpression", Type |-> type, Length |-> length, Capacity |-> capacity]

BlockStatement(stmts) == [kind |-> "BlockStatement", Statements |-> stmts]
Parameter(name, type) == [kind |-> "Parameter", Name |-> name, Type |-> type]
StructField(public, name, type) ==
    [kind |-> "StructField", Public |-> public, Name |-> name, Type |-> type]
VarStatement(name, type, value) ==
    [kind |-> "VarStatement", Name |-> name, Type |-> type, Value |-> value]
ConstStatement(name, value) == [kind |-> "ConstStatement", Name |-> name, Value |-> value]
InferStatement(name, value) == [kind |-> "InferStatement", Name |-> name, Value |-> value]
ReturnStatement(value) == [kind |-> "ReturnStatement", Value |-> value]
ExpressionStatement(e) == [kind |-> "ExpressionStatement", Expression |-> e]
FunctionStatement(public, receiver, name, params, returnType, body) ==
    [kind |-> "FunctionStatement", Public |-> public, Receiver |-> receiver, Name |-> name,
     Parameters |-> params, ReturnType |-> returnType, Body |-> body]
StructStatement(public, name, fields) ==
    [kind |-> "StructStatement", Public |-> public, Name |-> name, Fields |-> fields]
IfStatement(cond, cons, alt) ==
    [kind |-> "IfStatement", Condition |-> cond, Consequence |-> cons, Alternative |-> alt]
ForStatement(init, cond, post, body) ==
    [kind |-> "ForStatement", Init |-> init, Condition |-> cond, Post |-> post, Body |-> body]
WhileStatement(cond, body) == [kind |-> "WhileStatement", Condition |-> cond, Body |-> body]
FreeStatement(value) == [kind |-> "FreeStatement", Value |-> value]
DeferStatement(stmt) == [kind |-> "DeferStatement", Statement |-> stmt]
ImportStatement(path) == [kind |-> "ImportStatement", Path |-> path]
BreakStatement == [kind |-> "BreakStatement"]
ContinueStatement == [kind |-> "ContinueStatement"]
EnumValue(name, value) == [kind |-> "EnumValue", Name |-> name, Value |-> value]
EnumStatement(public, name, values) ==
    [kind |-> "EnumStatement", Public |-> public, Name |-> name, Values |-> values]
ForRangeStatement(index, value, iterable, body) ==
    [kind |-> "ForRangeStatement", Index |-> index, Value |-> value, Iterable |-> iterable,
     Body |-> body]
DeleteStatement(map, key) == [kind |-> "DeleteStatement", Map |-> map, Key |-> key]
MapPair(key, value) == [kind |-> "MapPair", Key |-> key, Value |-> value]
MapLiteral(type, pairs) == [kind |-> "MapLiteral", Type |-> type, Pairs |-> pairs]

(***************************************************************************)
(* Go library functions the compiler calls.                                *)
(***************************************************************************)
RECURSIVE Repeat(_, _)
Repeat(s, n) == IF n <= 0 THEN "" ELSE s \o Repeat(s, n - 1)

RECURSIVE Join(_, _)
Join(strs, sep) ==
    IF Len(strs) = 0 THEN ""
    ELSE IF Len(strs) = 1 THEN strs[1]
    ELSE strs[1] \o sep \o Join(Tail(strs), sep)

HasSuffix(s, suffix) ==
    /\ Len(s) >= Len(suffix)
    /\ SubSeq(s, Len(s) - Len(suffix) + 1, Len(s)) = suffix

HasPrefix(s, prefix) ==
    /\ Len(s) >= Len(prefix)
    /\ SubSeq(s, 1, Len(prefix)) = prefix

TrimSuffix(s, suffix) ==
    IF HasSuffix(s, suffix) THEN SubSeq(s, 1, Len(s) - Len(suffix)) ELSE s

TrimPrefix(s, prefix) ==
    IF HasPrefix(s, prefix) THEN SubSeq(s, Len(prefix) + 1, Len(s)) ELSE s

\* fmt's %f of a float64: the whole part, a point, six decimals
FormatFloat(v) ==
    With(ToString(v[2]), LAMBDA micros :
        ToString(v[1]) \o "." \o Repeat("0", 6 - Len(micros)) \o micros)

(***************************************************************************)
(* pkg/codegen: types and expressions.  These only read the generator.     *)
(***************************************************************************)
typeToC(t) ==
    IF t = Nil THEN "void"
    ELSE With(CASE t.Name = "int" -> "int"
                [] t.Name = "float" -> "double"
                [] t.Name = "string" -> "h_string"
                [] t.Name = "char" -> "char"
                [] t.Name = "bool" -> "bool"
                [] t.Name = "void" -> "void"
                [] OTHER -> t.Name, LAMBDA base :
             With(IF t.ArrayLen = -1 THEN base \o "*"
                  ELSE IF t.ArrayLen > 0 THEN base \o "[" \o ToString(t.ArrayLen) \o "]"
                  ELSE base, LAMBDA arr :
             IF t.IsPtr THEN arr \o "*" ELSE arr))

\* g.functions[name] exists && fn.ReturnType != nil
HasReturnType(gen, name) ==
    /\ name \in DOMAIN gen.functions
    /\ gen.functions[name].ReturnType # Nil

RECURSIVE inferType(_, _)
inferType(gen, expr) ==
    CASE expr.kind = "IntegerLiteral" -> "int"
      [] expr.kind = "FloatLiteral" -> "double"
      [] expr.kind = "StringLiteral" -> "h_string"
      [] expr.kind = "CharLiteral" -> "char"
      [] expr.kind = "BooleanLiteral" -> "bool"
      [] expr.kind = "NullLiteral" -> "void*"
      [] expr.kind = "AllocExpression" -> expr.Type.Name \o "*"
      [] expr.kind = "PrefixExpression" ->
            IF expr.Operator = "&" THEN inferType(gen, expr.Right) \o "*"
            ELSE IF expr.Operator = "*" THEN TrimSuffix(inferType(gen, expr.Right), "*")
            ELSE inferType(gen, expr.Right)
      [] expr.kind = "InfixExpression" -> inferType(gen, expr.Left)
      [] expr.kind = "CallExpression" ->
            IF expr.Function.kind = "Identifier" /\ HasReturnType(gen, expr.Function.Value)
            THEN typeToC(gen.functions[expr.Function.Value].ReturnType)
            ELSE "int"
      [] OTHER -> "int"

isStringExpr(expr) == expr.kind = "StringLiteral"

isPointerExpr(gen, expr) ==
    CASE expr.kind = "Identifier" ->
            IF expr.Value \in DOMAIN gen.variables
            THEN HasSuffix(gen.variables[expr.Value], "*")
            ELSE FALSE
      [] expr.kind = "AllocExpression" -> TRUE
      [] expr.kind = "PrefixExpression" -> expr.Operator = "&"
      [] expr.kind = "CallExpression" ->
            IF expr.Function.kind = "Identifier" /\ HasReturnType(gen, expr.Function.Value)
            THEN gen.functions[expr.Function.Value].ReturnType.IsPtr
            ELSE FALSE
      [] OTHER -> FALSE

getExprType(gen, expr) ==
    CASE expr.kind = "Identifier" ->
            IF expr.Value \in DOMAIN gen.variables
            THEN TrimSuffix(gen.variables[expr.Value], "*")
            ELSE "Unknown"
      [] expr.kind = "AllocExpression" -> expr.Type.Name
      [] expr.kind = "CallExpression" ->
            IF expr.Function.kind = "Identifier" /\ HasReturnType(gen, expr.Function.Value)
            THEN gen.functions[expr.Function.Value].ReturnType.Name
            ELSE "Unknown"
      [] OTHER -> "Unknown"

\* The loop over g.functions can only hit the entry keyed by the method's name:
\* the map is keyed by fn.Name.Value and the loop wants fn.Name.Value == methodName.
getCallReturnType(gen, e) ==
    With(e.Function, LAMBDA fnExpr :
        With(IF fnExpr.kind = "MemberExpression" THEN fnExpr.Member.Value ELSE "", LAMBDA method :
        With(gen.functions[method], LAMBDA fn :
        With(IF fn.Receiver.Type.IsPtr
             THEN TrimPrefix(fn.Receiver.Type.Name, "*")
             ELSE fn.Receiver.Type.Name, LAMBDA recv :
        IF /\ fnExpr.kind = "MemberExpression"
           /\ method \in DOMAIN gen.functions
           /\ fn.Receiver # Nil
           /\ fn.ReturnType # Nil
           /\ recv = getExprType(gen, fnExpr.Object)
        THEN typeToC(fn.ReturnType)
        ELSE IF fnExpr.kind = "Identifier" /\ HasReturnType(gen, fnExpr.Value)
        THEN typeToC(gen.functions[fnExpr.Value].ReturnType)
        ELSE "int"))))

RECURSIVE generateExpression(_, _)
RECURSIVE generateExpressions(_, _)
RECURSIVE generateCallExpression(_, _)

\* the loops "for _, arg := range ... { args = append(args, g.generateExpression(arg)) }"
generateExpressions(gen, exprs) ==
    IF Len(exprs) = 0 THEN <<>>
    ELSE <<generateExpression(gen, exprs[1])>> \o generateExpressions(gen, Tail(exprs))

generateMakeExpression(gen, e) ==
    With(typeToC(TypeAnnotation(e.Type.Name, FALSE, 0)), LAMBDA elemType :
        IF e.Length # Nil
        THEN "(" \o elemType \o "*)calloc(" \o generateExpression(gen, e.Length)
                 \o ", sizeof(" \o elemType \o "))"
        ELSE "(" \o elemType \o "*)calloc(0, sizeof(" \o elemType \o "))")

generateCallExpression(gen, e) ==
    With(generateExpression(gen, e.Function), LAMBDA funcName :
        With(e.Arguments[1], LAMBDA arg :
        With(generateExpression(gen, arg), LAMBDA argStr :
        With("printf(\"%s\\n\", " \o argStr \o ")", LAMBDA asString :
        With("printf(\"%d\\n\", " \o argStr \o ")", LAMBDA asInt :
        With("(sizeof(" \o argStr \o ")/sizeof(" \o argStr \o "[0]))", LAMBDA sizeofForm :
        IF funcName = "print" THEN
            IF Len(e.Arguments) > 0 THEN
                CASE arg.kind = "StringLiteral" -> asString
                  [] arg.kind = "IntegerLiteral" -> asInt
                  [] arg.kind = "FloatLiteral" -> "printf(\"%f\\n\", " \o argStr \o ")"
                  [] arg.kind = "BooleanLiteral" ->
                        "printf(\"%s\\n\", " \o argStr \o " ? \"true\" : \"false\")"
                  [] arg.kind = "CallExpression" ->
                        IF getCallReturnType(gen, arg) = "h_string" THEN asString ELSE asInt
                  [] arg.kind = "Identifier" ->
                        IF arg.Value \in DOMAIN gen.variables
                           /\ gen.variables[arg.Value] = "h_string"
                        THEN asString ELSE asInt
                  [] OTHER -> asInt
            ELSE "printf(\"\\n\")"
        ELSE IF funcName = "len" THEN
            IF Len(e.Arguments) > 0 THEN
                IF arg.kind = "StringLiteral" THEN "strlen(" \o argStr \o ")" ELSE sizeofForm
            ELSE "0"
        ELSE IF e.Function.kind = "MemberExpression" THEN
            getExprType(gen, e.Function.Object) \o "_" \o e.Function.Member.Value \o "("
                \o Join(<<generateExpression(gen, e.Function.Object)>>
                            \o generateExpressions(gen, e.Arguments), ", ")
                \o ")"
        ELSE funcName \o "(" \o Join(generateExpressions(gen, e.Arguments), ", ") \o ")"))))))

generateExpression(gen, expr) ==
    CASE expr.kind = "Identifier" -> expr.Value
      [] expr.kind = "IntegerLiteral" -> ToString(expr.Value)
      [] expr.kind = "FloatLiteral" -> FormatFloat(expr.Value)
      [] expr.kind = "StringLiteral" -> "\"" \o expr.Value \o "\""
      [] expr.kind = "CharLiteral" -> "'" \o expr.Value \o "'"
      [] expr.kind = "BooleanLiteral" -> IF expr.Value THEN "true" ELSE "false"
      [] expr.kind = "NullLiteral" -> "NULL"
      [] expr.kind = "PrefixExpression" ->
            "(" \o expr.Operator \o generateExpression(gen, expr.Right) \o ")"
      [] expr.kind = "InfixExpression" ->
            With(generateExpression(gen, expr.Left), LAMBDA left :
                With(generateExpression(gen, expr.Right), LAMBDA right :
                IF expr.Operator = "+" /\ (isStringExpr(expr.Left) \/ isStringExpr(expr.Right))
                THEN "h_string_concat(" \o left \o ", " \o right \o ")"
                ELSE "(" \o left \o " " \o expr.Operator \o " " \o right \o ")"))
      [] expr.kind = "PostfixExpression" ->
            "(" \o generateExpression(gen, expr.Left) \o expr.Operator \o ")"
      [] expr.kind = "AssignExpression" ->
            "(" \o generateExpression(gen, expr.Left) \o " " \o expr.Operator \o " "
                \o generateExpression(gen, expr.Value) \o ")"
      [] expr.kind = "CallExpression" -> generateCallExpression(gen, expr)
      [] expr.kind = "IndexExpression" ->
            generateExpression(gen, expr.Left) \o "[" \o generateExpression(gen, expr.Index) \o "]"
      [] expr.kind = "MemberExpression" ->
            generateExpression(gen, expr.Object)
                \o (IF isPointerExpr(gen, expr.Object) THEN "->" ELSE ".")
                \o expr.Member.Value
      [] expr.kind = "CastExpression" ->
            "((" \o typeToC(expr.TargetType) \o ")" \o generateExpression(gen, expr.Value) \o ")"
      [] expr.kind = "AllocExpression" ->
            "(" \o expr.Type.Name \o "*)malloc(sizeof(" \o expr.Type.Name \o "))"
      [] expr.kind = "ArrayLiteral" ->
            "{" \o Join(generateExpressions(gen, expr.Elements), ", ") \o "}"
      [] expr.kind = "MakeExpression" -> generateMakeExpression(gen, expr)
      [] OTHER -> ""

(***************************************************************************)
(* pkg/codegen: the Generator and its statements.                          *)
(*                                                                         *)
(* Beside the fields of the Go struct the record carries three history     *)
(* fields: depth (how many emitDeferredStatements frames are on the Go     *)
(* stack), aborted (the process died: nil dereference or stack overflow)   *)
(* and hist (what the emission of the current function did, in order).     *)
(* A dead process writes nothing: every update is skipped once aborted.    *)
(***************************************************************************)
EmptyMap == [k \in {} |-> Nil]

MapSet(m, k, v) == [x \in DOMAIN m \cup {k} |-> IF x = k THEN v ELSE m[x]]

NewGenerator ==
    [output |-> <<>>, indent |-> 0, structs |-> EmptyMap, functions |-> EmptyMap,
     variables |-> EmptyMap, deferredStmts |-> <<>>,
     depth |-> 0, aborted |-> FALSE, hist |-> <<>>]

\* One entry of hist.  ev is "defer" (a statement was pushed as deferredStmts[i]),
\* "emit" (emitDeferredStatements emitted deferredStmts[i]), "return" (a return
\* statement was emitted with n statements on the stack) or "fall" (the end of the
\* body was reached with n statements on the stack).  The event wrote the lines
\* from+1..to of the output at indentation ind; h0 is the length of hist when it
\* began and depth the number of emitDeferredStatements frames around it.
Event(ev, gen, stmt, i, n, from, to) ==
    [ev |-> ev, depth |-> gen.depth, ind |-> gen.indent, h0 |-> Len(gen.hist),
     stmt |-> stmt, i |-> i, n |-> n, from |-> from, to |-> to]

Log(gen, event) ==
    IF gen.aborted THEN gen ELSE [gen EXCEPT !.hist = Append(@, event)]

Abort(gen) == [gen EXCEPT !.aborted = TRUE]

writeLine(gen, s) ==
    IF gen.aborted THEN gen
    ELSE [gen EXCEPT !.output = Append(@, Repeat("    ", gen.indent) \o s)]

\* g.indent++ and g.indent--
Indent(gen, by) == IF gen.aborted THEN gen ELSE [gen EXCEPT !.indent = @ + by]

\* g.variables[name] = cType
SetVariable(gen, name, cType) ==
    IF gen.aborted THEN gen ELSE [gen EXCEPT !.variables = MapSet(@, name, cType)]

RECURSIVE generateStructFields(_, _)
generateStructFields(gen, fields) ==
    IF Len(fields) = 0 THEN gen
    ELSE generateStructFields(
            writeLine(gen, typeToC(fields[1].Type) \o " " \o fields[1].Name.Value \o ";"),
            Tail(fields))

generateStruct(gen, s) ==
    With(Indent(writeLine(gen, "struct " \o s.Name.Value \o " {"), 1), LAMBDA g1 :
        With(generateStructFields(g1, s.Fields), LAMBDA g2 :
        writeLine(writeLine(Indent(g2, -1), "};"), "")))

RECURSIVE paramStrings(_)
paramStrings(params) ==
    IF Len(params) = 0 THEN <<>>
    ELSE <<typeToC(params[1].Type) \o " " \o params[1].Name.Value>>
            \o paramStrings(Tail(params))

generateParams(f) ==
    With((IF f.Receiver # Nil THEN paramStrings(<<f.Receiver>>) ELSE <<>>)
           \o paramStrings(f.Parameters), LAMBDA params :
        IF Len(params) = 0 THEN "void" ELSE Join(params, ", "))

\* the C name of a function: StructName_methodName for a method
funcName(f) ==
    IF f.Receiver # Nil
    THEN (IF f.Receiver.Type.IsPtr
          THEN TrimPrefix(f.Receiver.Type.Name, "*")
          ELSE f.Receiver.Type.Name) \o "_" \o f.Name.Value
    ELSE f.Name.Value

\* "<returnType> <funcName>(<params>)", as both generateFunctionDeclaration and
\* generateFunction compute it
signature(f) ==
    (IF f.ReturnType # Nil THEN typeToC(f.ReturnType) ELSE "void")
        \o " " \o funcName(f) \o "(" \o generateParams(f) \o ")"

\* generateFunctionDeclaration with the receiver left out of the parameters
generateFunctionDeclarationNoReceiver(gen, f) ==
    writeLine(gen, signature([f EXCEPT !.Receiver = Nil]) \o ";")

generateFunctionDeclaration(gen, f) == writeLine(gen, signature(f) \o ";")

generateStatementInline(gen, stmt) ==
    CASE stmt.kind = "InferStatement" ->
            inferType(gen, stmt.Value) \o " " \o stmt.Name.Value \o " = "
                \o generateExpression(gen, stmt.Value)
      [] stmt.kind = "ExpressionStatement" -> generateExpression(gen, stmt.Expression)
      [] OTHER -> ""

generateVarStatement(gen, s) ==
    With(typeToC(s.Type), LAMBDA cType :
        With(SetVariable(gen, s.Name.Value, cType), LAMBDA g1 :
        IF s.Value # Nil
        THEN writeLine(g1, cType \o " " \o s.Name.Value \o " = "
                              \o generateExpression(g1, s.Value) \o ";")
        ELSE writeLine(g1, cType \o " " \o s.Name.Value \o ";")))

generateConstStatement(gen, s) ==
    writeLine(gen, "const " \o inferType(gen, s.Value) \o " " \o s.Name.Value \o " = "
                       \o generateExpression(gen, s.Value) \o ";")

generateInferStatement(gen, s) ==
    With(s.Name.Value, LAMBDA name :
        With(generateExpression(gen, s.Value), LAMBDA value :
        IF s.Value.kind = "ArrayLiteral" /\ s.Value.Type # Nil THEN
            With(typeToC(TypeAnnotation(s.Value.Type.Name, FALSE, 0)), LAMBDA elemType :
                With(s.Value.Type.ArrayLen, LAMBDA len :
                IF len > 0 THEN
                    writeLine(SetVariable(gen, name, elemType \o "[" \o ToString(len) \o "]"),
                              elemType \o " " \o name \o "[" \o ToString(len) \o "] = "
                                  \o value \o ";")
                ELSE IF Len(s.Value.Elements) > 0 THEN
                    writeLine(SetVariable(gen, name, elemType \o "[]"),
                              elemType \o " " \o name \o "[] = " \o value \o ";")
                ELSE
                    writeLine(SetVariable(gen, name, elemType \o "*"),
                              elemType \o "* " \o name \o " = NULL;")))
        ELSE IF s.Value.kind = "MakeExpression" THEN
            With(typeToC(TypeAnnotation(s.Value.Type.Name, FALSE, 0)), LAMBDA elemType :
                writeLine(SetVariable(gen, name, elemType \o "*"),
                          elemType \o "* " \o name \o " = " \o value \o ";"))
        ELSE
            With(inferType(gen, s.Value), LAMBDA cType :
                writeLine(SetVariable(gen, name, cType),
                          cType \o " " \o name \o " = " \o value \o ";"))))

generateFreeStatement(gen, s) ==
    writeLine(gen, "free(" \o generateExpression(gen, s.Value) \o ");")

generateDeferStatement(gen, s) ==
    IF gen.aborted THEN gen
    ELSE With([gen EXCEPT !.deferredStmts = Append(@, s.Statement)], LAMBDA g1 :
             Log(g1, Event("defer", gen, s.Statement, Len(g1.deferredStmts), 0,
                           Len(gen.output), Len(g1.output))))

RECURSIVE generateStatement(_, _)
RECURSIVE generateStatements(_, _)
RECURSIVE generateStatementDirect(_, _)
RECURSIVE emitDeferredStatements(_)
RECURSIVE emitDeferredFrom(_, _)

\* the loop of generateBlock
generateStatements(gen, stmts) ==
    IF Len(stmts) = 0 THEN gen
    ELSE generateStatements(generateStatement(gen, stmts[1]), Tail(stmts))

\* block.Statements of a nil *BlockStatement is a nil dereference
generateBlock(gen, block) ==
    IF block = Nil THEN Abort(gen) ELSE generateStatements(gen, block.Statements)

\* the loop of emitDeferredStatements, from index i (1-based) down to 1
emitDeferredFrom(gen, i) ==
    IF i < 1 THEN gen
    ELSE With(generateStatementDirect(gen, gen.deferredStmts[i]), LAMBDA g1 :
             emitDeferredFrom(
                Log(g1, Event("emit", gen, gen.deferredStmts[i], i, 0,
                              Len(gen.output), Len(g1.output))),
                i - 1))

\* emitDeferredStatements with the loop run upwards: first registered, first emitted
RECURSIVE emitDeferredUpFrom(_, _, _)
emitDeferredUpFrom(gen, i, n) ==
    IF i > n THEN gen
    ELSE With(generateStatementDirect(gen, gen.deferredStmts[i]), LAMBDA g1 :
             emitDeferredUpFrom(
                Log(g1, Event("emit", gen, gen.deferredStmts[i], i, 0,
                              Len(gen.output), Len(g1.output))),
                i + 1, n))

emitDeferredStatementsFIFO(gen) ==
    IF gen.aborted \/ gen.depth >= MaxCallDepth THEN Abort(gen)
    ELSE [emitDeferredUpFrom([gen EXCEPT !.depth = @ + 1], 1, Len(gen.deferredStmts))
             EXCEPT !.depth = gen.depth]

emitDeferredStatements(gen) ==
    IF gen.aborted \/ gen.depth >= MaxCallDepth THEN Abort(gen)
    ELSE [emitDeferredFrom([gen EXCEPT !.depth = @ + 1], Len(gen.deferredStmts))
             EXCEPT !.depth = gen.depth]

generateStatementDirect(gen, stmt) ==
    CASE stmt.kind = "ExpressionStatement" ->
            writeLine(gen, generateExpression(gen, stmt.Expression) \o ";")
      [] stmt.kind = "FreeStatement" ->
            writeLine(gen, "free(" \o generateExpression(gen, stmt.Value) \o ");")
      [] OTHER -> generateStatement(gen, stmt)

\* generateReturnStatement without its first branch: the value is evaluated in the
\* return itself, after the deferred statements
generateReturnStatementNoCapture(gen, s) ==
    With(emitDeferredStatements(gen), LAMBDA g1 :
        Log(writeLine(g1, IF s.Value # Nil
                          THEN "return " \o generateExpression(g1, s.Value) \o ";"
                          ELSE "return;"),
            Event("return", gen, s, 0, Len(gen.deferredStmts),
                  Len(gen.output), Len(g1.output) + 1)))

\* the value is captured in __ret_val when there are deferred statements
captured(gen, s) == s.Value # Nil /\ Len(gen.deferredStmts) > 0

generateReturnStatement(gen, s) ==
    With(emitDeferredStatements(
            IF captured(gen, s)
            THEN writeLine(gen, inferType(gen, s.Value) \o " __ret_val = "
                                    \o generateExpression(gen, s.Value) \o ";")
            ELSE gen), LAMBDA g1 :
        Log(writeLine(g1, IF captured(gen, s) THEN "return __ret_val;"
                          ELSE IF s.Value # Nil
                          THEN "return " \o generateExpression(g1, s.Value) \o ";"
                          ELSE "return;"),
            Event("return", gen, s, 0, Len(gen.deferredStmts),
                  Len(gen.output), Len(g1.output) + 1)))

generateIfStatement(gen, s) ==
    With(Indent(writeLine(gen, "if (" \o generateExpression(gen, s.Condition) \o ") {"), 1), LAMBDA g1 :
        With(Indent(generateBlock(g1, s.Consequence), -1), LAMBDA g2 :
        With(IF s.Alternative # Nil
             THEN Indent(generateBlock(Indent(writeLine(g2, "} else {"), 1), s.Alternative), -1)
             ELSE g2, LAMBDA g3 :
        writeLine(g3, "}"))))

generateForStatement(gen, s) ==
    With(IF s.Init # Nil THEN generateStatementInline(gen, s.Init) ELSE "", LAMBDA init :
        With(IF s.Condition # Nil THEN generateExpression(gen, s.Condition) ELSE "", LAMBDA cond :
        With(IF s.Post # Nil THEN generateStatementInline(gen, s.Post) ELSE "", LAMBDA post :
        With(Indent(writeLine(gen, "for (" \o init \o "; " \o cond \o "; " \o post \o ") {"), 1), LAMBDA g1 :
        writeLine(Indent(generateBlock(g1, s.Body), -1), "}")))))

generateWhileStatement(gen, s) ==
    With(Indent(writeLine(gen, "while (" \o generateExpression(gen, s.Condition)
                                   \o ") {"), 1), LAMBDA g1 :
        writeLine(Indent(generateBlock(g1, s.Body), -1), "}"))

generateStatement(gen, stmt) ==
    CASE stmt.kind = "VarStatement" -> generateVarStatement(gen, stmt)
      [] stmt.kind = "ConstStatement" -> generateConstStatement(gen, stmt)
      [] stmt.kind = "InferStatement" -> generateInferStatement(gen, stmt)
      [] stmt.kind = "ReturnStatement" -> generateReturnStatement(gen, stmt)
      [] stmt.kind = "IfStatement" -> generateIfStatement(gen, stmt)
      [] stmt.kind = "ForStatement" -> generateForStatement(gen, stmt)
      [] stmt.kind = "WhileStatement" -> generateWhileStatement(gen, stmt)
      [] stmt.kind = "FreeStatement" -> generateFreeStatement(gen, stmt)
      [] stmt.kind = "DeferStatement" -> generateDeferStatement(gen, stmt)
      [] stmt.kind = "ExpressionStatement" ->
            writeLine(gen, generateExpression(gen, stmt.Expression) \o ";")
      \* a nil pointer of a type the switch has a case for: the case reads its fields
      [] stmt.kind = "typed nil" ->
            IF stmt.Type \in {"VarStatement", "ConstStatement", "InferStatement",
                              "ReturnStatement", "IfStatement", "ForStatement",
                              "WhileStatement", "FreeStatement", "DeferStatement",
                              "ExpressionStatement"}
            THEN Abort(gen) ELSE gen
      [] OTHER -> gen

RECURSIVE recordParameters(_, _)
recordParameters(gen, params) ==
    IF Len(params) = 0 THEN gen
    ELSE recordParameters(SetVariable(gen, params[1].Name.Value, typeToC(params[1].Type)),
                          Tail(params))

\* resetFunctionState that leaves the symbol table alone
resetFunctionStateKeepVariables(gen) ==
    [gen EXCEPT !.deferredStmts = <<>>, !.hist = <<>>]

\* resetFunctionState that leaves the deferred stack alone
resetFunctionStateKeepDeferred(gen) ==
    [gen EXCEPT !.variables = EmptyMap, !.hist = <<>>]

\* "Clear deferred statements and variable scope for this function"; the history
\* of the function starts here too
resetFunctionState(gen) ==
    [gen EXCEPT !.deferredStmts = <<>>, !.variables = EmptyMap, !.hist = <<>>]

generateFunction(gen, f) ==
    With(generateBlock(
            recordParameters(
                recordParameters(
                    resetFunctionState(Indent(writeLine(gen, signature(f) \o " {"), 1)),
                    IF f.Receiver # Nil THEN <<f.Receiver>> ELSE <<>>),
                f.Parameters),
            f.Body), LAMBDA g5 :
        With(emitDeferredStatements(g5), LAMBDA g6 :
        writeLine(writeLine(Indent(Log(g6, Event("fall", g5, Nil, 0, Len(g5.deferredStmts),
                                                 Len(g5.output), Len(g6.output))),
                                   -1), "}"), "")))

(***************************************************************************)
(* Generate, step by step.  gpc is the loop Generate stands in and gidx    *)
(* the statement that loop looks at next.                                  *)
(***************************************************************************)
\* the first pass with a case for a global var: its type is recorded
RECURSIVE collectDeclarationsAndGlobals(_, _)
collectDeclarationsAndGlobals(gen, stmts) ==
    IF Len(stmts) = 0 THEN gen
    ELSE With(stmts[1], LAMBDA s :
             With(CASE s.kind = "StructStatement" ->
                           [gen EXCEPT !.structs = MapSet(@, s.Name.Value, s)]
                     [] s.kind = "FunctionStatement" ->
                           [gen EXCEPT !.functions = MapSet(@, s.Name.Value, s)]
                     [] s.kind = "VarStatement" ->
                           [gen EXCEPT !.variables = MapSet(@, s.Name.Value, "int")]
                     [] OTHER -> gen, LAMBDA g1 :
             collectDeclarationsAndGlobals(g1, Tail(stmts))))

\* first pass: g.structs[name] = s, g.functions[name] = s
RECURSIVE collectDeclarations(_, _)
collectDeclarations(gen, stmts) ==
    IF Len(stmts) = 0 THEN gen
    ELSE With(stmts[1], LAMBDA s :
             With(CASE s.kind = "StructStatement" ->
                           [gen EXCEPT !.structs = MapSet(@, s.Name.Value, s)]
                     [] s.kind = "FunctionStatement" ->
                           [gen EXCEPT !.functions = MapSet(@, s.Name.Value, s)]
                     [] s.kind = "typed nil" ->
                           IF s.Type \in {"StructStatement", "FunctionStatement"}
                           THEN Abort(gen) ELSE gen
                     [] OTHER -> gen, LAMBDA g1 :
             collectDeclarations(g1, Tail(stmts))))

RECURSIVE writeLines(_, _)
writeLines(gen, lines) ==
    IF Len(lines) = 0 THEN gen ELSE writeLines(writeLine(gen, lines[1]), Tail(lines))

\* generateHeader with the typedef written before the includes
generateHeaderTypedefFirst(gen) ==
    writeLines(gen, <<"typedef char* h_string;", "", "#include <stdio.h>",
                      "#include <stdlib.h>", "#include <string.h>",
                      "#include <stdbool.h>", "">>)

generateHeader(gen) ==
    writeLines(gen, <<"#include <stdio.h>", "#include <stdlib.h>", "#include <string.h>",
                      "#include <stdbool.h>", "", "typedef char* h_string;", "">>)

generateConcatHelper(gen) ==
    With(Indent(writeLine(gen, "h_string h_string_concat(h_string a, h_string b) {"), 1), LAMBDA g1 :
        With(writeLines(g1, <<"size_t len_a = strlen(a);", "size_t len_b = strlen(b);",
                              "h_string result = (h_string)malloc(len_a + len_b + 1);",
                              "memcpy(result, a, len_a);",
                              "memcpy(result + len_a, b, len_b + 1);", "return result;">>), LAMBDA g2 :
        writeLines(Indent(g2, -1), <<"}", "">>)))

\* the orders in which "for name := range g.structs" may visit the keys: Go leaves
\* the iteration order of a map unspecified
MapOrders(m) ==
    {o \in [1..Cardinality(DOMAIN m) -> DOMAIN m] : \A k \in DOMAIN m : \E i \in DOMAIN o : o[i] = k}

RECURSIVE structForwardLines(_)
structForwardLines(names) ==
    IF Len(names) = 0 THEN <<>>
    ELSE <<"typedef struct " \o names[1] \o " " \o names[1] \o ";">>
            \o structForwardLines(Tail(names))

\* the loops of Generate with the function bodies before the forward declarations
NextPhaseBodiesFirst(pc) ==
    CASE pc = "start" -> "structForward"
      [] pc = "structForward" -> "structs"
      [] pc = "structs" -> "functions"
      [] pc = "functions" -> "functionDecls"
      [] pc = "functionDecls" -> "return"
      [] pc = "return" -> "done"

\* the order of the loops of Generate
NextPhase(pc) ==
    CASE pc = "start" -> "structForward"
      [] pc = "structForward" -> "structs"
      [] pc = "structs" -> "functionDecls"
      [] pc = "functionDecls" -> "functions"
      [] pc = "functions" -> "return"
      [] pc = "return" -> "done"

Section(part, name, from, to) == [part |-> part, name |-> name, from |-> from, to |-> to]

GenerateStart ==
    /\ gpc = "start"
    /\ g' = generateConcatHelper(generateHeader(collectDeclarations(g, program)))
    /\ sections' = Append(sections, Section("header", "", 0, Len(g'.output)))
    /\ gpc' = IF g'.aborted THEN "aborted" ELSE NextPhase(gpc)
    /\ gidx' = 1
    /\ UNCHANGED <<program, result, lexVars, parseVars, compileVars>>

GenerateStructForward ==
    /\ gpc = "structForward"
    /\ \E order \in MapOrders(g.structs) :
          LET g1 == writeLines(g, structForwardLines(order))
          IN  /\ g' = IF Len(order) > 0 THEN writeLine(g1, "") ELSE g1
              /\ sections' = sections \o
                    [i \in 1..Len(order) |->
                        Section("structForward", order[i], Len(g.output) + i - 1,
                                Len(g.output) + i)]
    /\ gpc' = NextPhase(gpc)
    /\ gidx' = 1
    /\ UNCHANGED <<program, result, lexVars, parseVars, compileVars>>

GenerateStructs ==
    /\ gpc = "structs"
    /\ IF gidx <= Len(program)
       THEN /\ g' = IF program[gidx].kind = "StructStatement"
                    THEN generateStruct(g, program[gidx]) ELSE g
            /\ sections' = IF program[gidx].kind = "StructStatement"
                           THEN Append(sections, Section("struct", program[gidx].Name.Value,
                                                         Len(g.output), Len(g'.output)))
                           ELSE sections
            /\ gidx' = gidx + 1
            /\ gpc' = gpc
       ELSE /\ gpc' = NextPhase(gpc)
            /\ gidx' = 1
            /\ UNCHANGED <<g, sections>>
    /\ UNCHANGED <<program, result, lexVars, parseVars, compileVars>>

GenerateFunctionDecls ==
    /\ gpc = "functionDecls"
    /\ IF gidx <= Len(program)
       THEN /\ g' = IF program[gidx].kind = "FunctionStatement"
                    THEN generateFunctionDeclaration(g, program[gidx]) ELSE g
            /\ sections' = IF program[gidx].kind = "FunctionStatement"
                           THEN Append(sections, Section("functionDecl", funcName(program[gidx]),
                                                         Len(g.output), Len(g'.output)))
                           ELSE sections
            /\ gidx' = gidx + 1
            /\ gpc' = gpc
       ELSE /\ g' = IF Cardinality(DOMAIN g.functions) > 0 THEN writeLine(g, "") ELSE g
            /\ gpc' = NextPhase(gpc)
            /\ gidx' = 1
            /\ UNCHANGED sections
    /\ UNCHANGED <<program, result, lexVars, parseVars, compileVars>>

GenerateFunctions ==
    /\ gpc = "functions"
    /\ IF gidx <= Len(program)
       THEN /\ g' = IF program[gidx].kind = "FunctionStatement"
                    THEN generateFunction(g, program[gidx]) ELSE g
            /\ sections' = IF program[gidx].kind = "FunctionStatement" /\ ~g'.aborted
                           THEN Append(sections, Section("function", funcName(program[gidx]),
                                                         Len(g.output), Len(g'.output)))
                           ELSE sections
            /\ gidx' = gidx + 1
            /\ gpc' = IF g'.aborted THEN "aborted" ELSE gpc
       ELSE /\ gpc' = NextPhase(gpc)
            /\ gidx' = 1
            /\ UNCHANGED <<g, sections>>
    /\ UNCHANGED <<program, result, lexVars, parseVars, compileVars>>

GenerateReturn ==
    /\ gpc = "return"
    /\ result' = g.output
    /\ gpc' = NextPhase(gpc)
    /\ UNCHANGED <<program, gidx, g, sections, lexVars, parseVars, compileVars>>

(***************************************************************************)
(* The programs the emitter is run on.  They are trees the parser returns  *)
(* without diagnostics.  Sets of nodes are kept as sequences and drawn by  *)
(* index.                                                                  *)
(***************************************************************************)
IntType == TypeAnnotation("int", FALSE, 0)
StringType == TypeAnnotation("string", FALSE, 0)
PtrType(name) == TypeAnnotation(name, TRUE, 0)
PrintStmt(text) ==
    ExpressionStatement(CallExpression(Identifier("print"), <<StringLiteral(text)>>))
FreeStmt(name) == FreeStatement(Identifier(name))

\* what may follow "defer": parseDeferStatement takes any statement
DeferOperands ==
    <<PrintStmt("a"), PrintStmt("b"), FreeStmt("p"),
      ReturnStatement(IntegerLiteral(1)),
      DeferStatement(PrintStmt("c")),
      IfStatement(Identifier("ok"), BlockStatement(<<FreeStmt("q")>>), Nil)>>

BodyStmts ==
    <<PrintStmt("x"), FreeStmt("p"), BreakStatement,
      ReturnStatement(Nil), ReturnStatement(IntegerLiteral(7)),
      IfStatement(Identifier("ok"),
                  BlockStatement(<<DeferStatement(FreeStmt("r")),
                                   ReturnStatement(IntegerLiteral(2))>>), Nil)>>
        \o [i \in 1..Len(DeferOperands) |-> DeferStatement(DeferOperands[i])]

\* bodies of at most MaxBody statements, as index sequences into BodyStmts
BodyChoices == UNION {[1..n -> 1..Len(BodyStmts)] : n \in 0..MaxBody}

BodyOf(choice) == BlockStatement([i \in 1..Len(choice) |-> BodyStmts[choice[i]]])

Function(name, returnType, body) ==
    FunctionStatement(FALSE, Nil, Identifier(name), <<>>, returnType, body)

TopStmts ==
    <<StructStatement(FALSE, Identifier("A"),
                      <<StructField(FALSE, Identifier("x"), IntType),
                        StructField(FALSE, Identifier("next"), PtrType("A"))>>),
      StructStatement(TRUE, Identifier("B"), <<>>),
      Function("main", Nil, BlockStatement(<<PrintStmt("m")>>)),
      Function("f", IntType,
               BlockStatement(<<InferStatement(Identifier("p"),
                                               AllocExpression(TypeAnnotation("A", FALSE, 0))),
                                DeferStatement(FreeStmt("p")),
                                ReturnStatement(IntegerLiteral(1))>>)),
      FunctionStatement(FALSE, Parameter(Identifier("r"), PtrType("A")), Identifier("get"),
                        <<Parameter(Identifier("n"), IntType)>>, StringType,
                        BlockStatement(<<DeferStatement(PrintStmt("d")),
                                         ReturnStatement(StringLiteral("s"))>>)),
      VarStatement(Identifier("counter"), IntType, IntegerLiteral(0)),
      ImportStatement("io")>>

TopChoices == UNION {[1..n -> 1..Len(TopStmts)] : n \in 0..MaxTop}

ProgramOf(choice) == [i \in 1..Len(choice) |-> TopStmts[choice[i]]]

Programs(p) ==
    \/ \E c \in TopChoices : p = ProgramOf(c)
    \/ \E c \in BodyChoices : p = <<Function("f", IntType, BodyOf(c))>>


\* methods: a receiver (r *T), a return type or none, up to two parameters
MethodReceivers ==
    {Parameter(Identifier(r), PtrType(t)) : r \in {"r", "self"}, t \in {"A", "Node"}}

MethodReturnTypes ==
    {Nil, IntType, StringType, PtrType("A"), TypeAnnotation("int", FALSE, -1),
     TypeAnnotation("float", FALSE, 0)}

MethodParameters ==
    {<<>>, <<Parameter(Identifier("n"), IntType)>>,
     <<Parameter(Identifier("s"), StringType), Parameter(Identifier("a"), PtrType("A"))>>}

\* a struct and a method, or a method and a function
MethodPrograms(p) ==
    \E receiver \in MethodReceivers, returnType \in MethodReturnTypes,
       params \in MethodParameters :
        \E method \in {FunctionStatement(FALSE, receiver, Identifier("get"), params,
                                         returnType, BlockStatement(<<PrintStmt("m")>>))} :
            \/ p = <<TopStmts[1], method>>
            \/ p = <<method, TopStmts[3]>>

\* most functions in a program of ResetPrograms
MaxFunctions == 3

\* functions that record variables and deferred statements, and functions that
\* use the same names without declaring them
ResetFunctions ==
    <<Function("a", Nil,
               BlockStatement(<<InferStatement(Identifier("s"), StringLiteral("t")),
                                InferStatement(Identifier("p"),
                                               AllocExpression(TypeAnnotation("S", FALSE, 0))),
                                DeferStatement(FreeStmt("p")),
                                ExpressionStatement(CallExpression(Identifier("print"),
                                                                   <<Identifier("s")>>))>>)),
      Function("b", Nil,
               BlockStatement(<<ExpressionStatement(CallExpression(Identifier("print"),
                                                                   <<Identifier("s")>>)),
                                ExpressionStatement(MemberExpression(Identifier("p"),
                                                                     Identifier("x")))>>)),
      FunctionStatement(FALSE, Parameter(Identifier("p"), PtrType("S")), Identifier("c"),
                        <<Parameter(Identifier("s"), StringType)>>, Nil,
                        BlockStatement(<<DeferStatement(PrintStmt("c")),
                                         ExpressionStatement(
                                             CallExpression(Identifier("print"),
                                                            <<Identifier("s")>>)),
                                         ExpressionStatement(
                                             MemberExpression(Identifier("p"),
                                                              Identifier("x"))),
                                         ReturnStatement(Nil)>>)),
      Function("d", IntType,
               BlockStatement(<<VarStatement(Identifier("s"), IntType, IntegerLiteral(1)),
                                ReturnStatement(Identifier("s"))>>))>>

\* the programs of one to MaxFunctions of these functions, in every order
ResetPrograms(p) ==
    \E c \in UNION {[1..n -> 1..Len(ResetFunctions)] : n \in 1..MaxFunctions} :
        p = [i \in 1..Len(c) |-> ResetFunctions[c[i]]]

\* values of a declaration with the C type to infer for each
DeclValues ==
    {[node |-> IntegerLiteral(1), cType |-> "int"],
     [node |-> FloatLiteral(2, 500000), cType |-> "double"],
     [node |-> StringLiteral("s"), cType |-> "h_string"],
     [node |-> CharLiteral("c"), cType |-> "char"],
     [node |-> BooleanLiteral(TRUE), cType |-> "bool"],
     [node |-> NullLiteral, cType |-> "void*"]}

DeclKinds == {"InferStatement", "ConstStatement"}

DeclNames == {"n", "k"}

\* the parameters of the function: none, one of another name, one of the
\* declared name n
DeclParameters ==
    {<<>>, <<Parameter(Identifier("a"), TypeAnnotation("int", FALSE, 0))>>,
     <<Parameter(Identifier("n"), TypeAnnotation("Node", TRUE, 0))>>}

\* what follows the declaration in the body
DeclUses(name) ==
    {<<>>, <<ExpressionStatement(CallExpression(Identifier("print"), <<Identifier(name)>>))>>}

\* name := value or const name := value
Declaration(kind, name, value) ==
    IF kind = "ConstStatement" THEN ConstStatement(Identifier(name), value.node)
    ELSE InferStatement(Identifier(name), value.node)

\* function f(params) { declaration; use }
DeclProgram(params, decl, use) ==
    <<FunctionStatement(FALSE, Nil, Identifier("f"), params, Nil,
                        BlockStatement(<<decl>> \o use))>>

DeclPrograms(p) ==
    \E kind \in DeclKinds, name \in DeclNames, value \in DeclValues,
       params \in DeclParameters :
        \E use \in DeclUses(name) :
            p = DeclProgram(params, Declaration(kind, name, value), use)

\* the types a variable x is declared with, and the C type recorded for each
AddressTypes ==
    {[type |-> TypeAnnotation("int", FALSE, 0), cType |-> "int"],
     [type |-> TypeAnnotation("float", FALSE, 0), cType |-> "double"],
     [type |-> TypeAnnotation("string", FALSE, 0), cType |-> "h_string"],
     [type |-> TypeAnnotation("char", FALSE, 0), cType |-> "char"],
     [type |-> TypeAnnotation("bool", FALSE, 0), cType |-> "bool"],
     [type |-> TypeAnnotation("Node", FALSE, 0), cType |-> "Node"],
     [type |-> TypeAnnotation("int", TRUE, 0), cType |-> "int*"]}

\* how x is recorded: as a parameter, by "var x T", or as the receiver
AddressPlaces == {"parameter", "var", "receiver"}

AddressNames == {[x |-> "x", p |-> "p"], [x |-> "v", p |-> "q"], [x |-> "y", p |-> "r"]}

\* function f(...) { [var x T;] p := &x; [use] }
AddressProgram(place, t, names, use) ==
    <<FunctionStatement(
        FALSE,
        IF place = "receiver" THEN Parameter(Identifier(names.x), t.type) ELSE Nil,
        Identifier("f"),
        IF place = "parameter" THEN <<Parameter(Identifier(names.x), t.type)>> ELSE <<>>,
        Nil,
        BlockStatement(
            (IF place = "var" THEN <<VarStatement(Identifier(names.x), t.type, Nil)>>
             ELSE <<>>)
            \o <<InferStatement(Identifier(names.p),
                                PrefixExpression("&", Identifier(names.x)))>>
            \o use))>>

AddressPrograms(p) ==
    \E place \in AddressPlaces, t \in AddressTypes, names \in AddressNames :
        \E use \in DeclUses(names.p) : p = AddressProgram(place, t, names, use)

\* top-level statements: a struct, two functions, and one of every other kind
GlobalStmts ==
    <<StructStatement(FALSE, Identifier("A"), <<StructField(FALSE, Identifier("x"), IntType)>>),
      Function("main", Nil, BlockStatement(<<PrintStmt("m")>>)),
      Function("f", IntType, BlockStatement(<<ReturnStatement(IntegerLiteral(1))>>)),
      VarStatement(Identifier("counter"), IntType, IntegerLiteral(0)),
      ConstStatement(Identifier("limit"), IntegerLiteral(10)),
      ImportStatement("io"),
      PrintStmt("top"),
      EnumStatement(FALSE, Identifier("Color"), <<EnumValue(Identifier("Red"), Nil)>>)>>

GlobalPrograms(p) ==
    \E c \in UNION {[1..n -> 1..Len(GlobalStmts)] : n \in 0..MaxGlobals} :
        p = [i \in 1..Len(c) |-> GlobalStmts[c[i]]]

(***************************************************************************)
(* pkg/lexer.  The input is a sequence of bytes (numbers 0..255), 0-based  *)
(* in the source and 1-based here: input[i] of the source is input[i + 1]. *)
(* A Lexer is the record of its fields.  A function that may panic        *)
(* returns a record with the field panic.                                  *)
(***************************************************************************)
\* the printable ASCII characters from 32 (space) to 126 (~); position 65, the
\* backquote (96), which a string constant cannot hold, is filled with a blank
Ascii ==
    " !\"#$%&'()*+,-./0123456789:;<=>?@ABCDEFGHIJKLMNOPQRSTUVWXYZ[\\]^_ abcdefghijklmnopqrstuvwxyz{|}~"

\* string(b) for one byte; a byte outside the table is written as an escape
Chr(b) ==
    CASE b = 10 -> "\n"
      [] b = 9 -> "\t"
      [] b = 13 -> "\r"
      [] b \in 32..126 /\ b # 96 -> SubSeq(Ascii, b - 31, b - 31)
      [] OTHER -> "\\x" \o ToString(b)

\* the byte of a one-character string
Ord(c) == CHOOSE b \in {9, 10, 13} \cup (32..126) : Chr(b) = c

\* []byte(s)
Bytes(s) == [i \in 1..Len(s) |-> Ord(SubSeq(s, i, i))]

\* string(bytes)
RECURSIVE Str(_)
Str(bytes) == IF Len(bytes) = 0 THEN "" ELSE Chr(bytes[1]) \o Str(Tail(bytes))

Token(type, literal, line, column) ==
    [Type |-> type, Literal |-> literal, Line |-> line, Column |-> column]

\* the map keywords
keywords ==
    [k \in {"function", "struct", "enum", "import", "if", "else", "for", "while",
            "return", "const", "var", "public", "null", "true", "false", "alloc",
            "free", "defer", "len", "make", "range", "break", "continue", "map",
            "delete", "int", "float", "string", "char", "bool", "void"} |->
        CASE k = "function" -> "FUNCTION" [] k = "struct" -> "STRUCT"
          [] k = "enum" -> "ENUM" [] k = "import" -> "IMPORT"
          [] k = "if" -> "IF" [] k = "else" -> "ELSE"
          [] k = "for" -> "FOR" [] k = "while" -> "WHILE"
          [] k = "return" -> "RETURN" [] k = "const" -> "CONST"
          [] k = "var" -> "VAR" [] k = "public" -> "PUBLIC"
          [] k = "null" -> "NULL" [] k = "true" -> "TRUE"
          [] k = "false" -> "FALSE" [] k = "alloc" -> "ALLOC"
          [] k = "free" -> "FREE" [] k = "defer" -> "DEFER"
          [] k = "len" -> "LEN" [] k = "make" -> "MAKE"
          [] k = "range" -> "RANGE" [] k = "break" -> "BREAK"
          [] k = "continue" -> "CONTINUE" [] k = "map" -> "MAP"
          [] k = "delete" -> "DELETE" [] k = "int" -> "TYPE_INT"
          [] k = "float" -> "TYPE_FLOAT" [] k = "string" -> "TYPE_STRING"
          [] k = "char" -> "TYPE_CHAR" [] k = "bool" -> "TYPE_BOOL"
          [] k = "void" -> "TYPE_VOID"]

LookupIdent(ident) == IF ident \in DOMAIN keywords THEN keywords[ident] ELSE "IDENT"

\* unicode.IsLetter(rune(ch)) || ch == '_': the byte is read as the code point
\* of the same number, so the letters of Latin-1 count
isLetter(ch) ==
    \/ ch \in 65..90
    \/ ch \in 97..122
    \/ ch \in {170, 181, 186}
    \/ ch \in 192..214
    \/ ch \in 216..246
    \/ ch \in 248..255
    \/ ch = 95

isDigit(ch) == ch \in 48..57

readChar(l) ==
    With(IF l.readPos >= Len(l.input) THEN 0 ELSE l.input[l.readPos + 1], LAMBDA ch :
        [l EXCEPT !.ch = ch, !.pos = l.readPos, !.readPos = l.readPos + 1,
                  !.line = IF ch = 10 THEN @ + 1 ELSE @,
                  !.column = IF ch = 10 THEN 0 ELSE @ + 1])

peekChar(l) == IF l.readPos >= Len(l.input) THEN 0 ELSE l.input[l.readPos + 1]

\* lexer.New
New(input) ==
    readChar([input |-> input, pos |-> 0, readPos |-> 0, ch |-> 0, line |-> 1, column |-> 0])

\* l.input[from:to]: a slice expression panics unless from <= to <= len(input)
Slice(l, from, to) ==
    IF from <= to /\ to <= Len(l.input)
    THEN [panic |-> FALSE, str |-> Str(SubSeq(l.input, from + 1, to))]
    ELSE [panic |-> TRUE, str |-> ""]

newToken(l, tokenType, ch) == Token(tokenType, Chr(ch), l.line, l.column)

RECURSIVE skipWhitespace(_)
skipWhitespace(l) ==
    IF l.ch \in {32, 9, 10, 13} THEN skipWhitespace(readChar(l)) ELSE l

\* the loops of the lexer: readChar while the current byte is in the set
RECURSIVE readWhileIdentifier(_)
readWhileIdentifier(l) ==
    IF isLetter(l.ch) \/ isDigit(l.ch) \/ l.ch = 95 THEN readWhileIdentifier(readChar(l)) ELSE l

RECURSIVE readWhileDigit(_)
readWhileDigit(l) == IF isDigit(l.ch) THEN readWhileDigit(readChar(l)) ELSE l

RECURSIVE readUntilQuote(_)
readUntilQuote(l) ==
    IF Chr(l.ch) # "\"" /\ l.ch # 0
    THEN readUntilQuote(readChar(IF Chr(l.ch) = "\\" THEN readChar(l) ELSE l))
    ELSE l

RECURSIVE readUntilNewline(_)
readUntilNewline(l) == IF l.ch # 10 /\ l.ch # 0 THEN readUntilNewline(readChar(l)) ELSE l

\* each read function returns the lexer it leaves, the text it read and whether
\* it panicked
Read(l, slice) == [l |-> l, str |-> slice.str, panic |-> slice.panic]

readIdentifier(l) ==
    With(readWhileIdentifier(l), LAMBDA l1 :
        Read(l1, Slice(l1, l.pos, l1.pos)))

readNumber(l) ==
    With(readWhileDigit(l), LAMBDA l1 :
        With(Chr(l1.ch) = "." /\ isDigit(peekChar(l1)), LAMBDA float :
        With(IF float THEN readWhileDigit(readChar(l1)) ELSE l1, LAMBDA l2 :
        [l |-> l2, str |-> Slice(l2, l.pos, l2.pos).str,
         panic |-> Slice(l2, l.pos, l2.pos).panic,
         tokenType |-> IF float THEN "FLOAT" ELSE "INT"])))

readString(l) ==
    With(readChar(l), LAMBDA l1 :
        With(readUntilQuote(l1), LAMBDA l2 :
        With(Slice(l2, l1.pos, l2.pos), LAMBDA str :
        Read(IF str.panic THEN l2 ELSE readChar(l2), str))))

readChar2(l) ==
    With(readChar(l), LAMBDA l1 :
        With(readChar(IF Chr(l1.ch) = "\\" THEN readChar(l1) ELSE l1), LAMBDA l2 :
        With(Slice(l2, l1.pos, l2.pos), LAMBDA str :
        Read(IF str.panic THEN l2 ELSE readChar(l2), str))))

readLineComment(l) ==
    With(readChar(IF Chr(l.ch) = "/" THEN readChar(l) ELSE l), LAMBDA l1 :
        With(readUntilNewline(l1), LAMBDA l2 :
        Read(l2, Slice(l2, l1.pos, l2.pos))))

RECURSIVE readBlockCommentFrom(_, _)
readBlockCommentFrom(l, pos) ==
    IF l.ch = 0 THEN Read(l, Slice(l, pos, l.pos))
    ELSE IF Chr(l.ch) = "*" /\ Chr(peekChar(l)) = "/"
    THEN Read(readChar(readChar(l)), Slice(l, pos, l.pos))
    ELSE readBlockCommentFrom(readChar(l), pos)

readBlockComment(l) ==
    With(readChar(readChar(l)), LAMBDA l1 :
        readBlockCommentFrom(l1, l1.pos))

NoToken == Token("", "", 0, 0)

\* what NextToken hands back: the lexer after the call, the token, and whether
\* the call panicked instead of returning
Returned(l, tok) == [l |-> l, tok |-> tok, panic |-> FALSE]

ReturnedRead(type, line, column, r) ==
    IF r.panic THEN [l |-> r.l, tok |-> NoToken, panic |-> TRUE]
    ELSE Returned(r.l, Token(type, r.str, line, column))

NextToken(l0) ==
    LET l == skipWhitespace(l0)
        c == Chr(l.ch)
        peek == Chr(peekChar(l))
        \* a token of two characters: readChar, build the token, readChar
        two(type, lit) == Returned(readChar(readChar(l)), Token(type, lit, l.line, l.column))
        \* a token of the current character
        one(type) == Returned(readChar(l), newToken(l, type, l.ch))
    IN  CASE l.ch = 0 -> Returned(readChar(l), Token("EOF", "", l.line, l.column))
          [] c = "=" -> IF peek = "=" THEN two("EQ", "==")
                        ELSE IF peek = ">" THEN two("ARROW", "=>")
                        ELSE one("ASSIGN")
          [] c = "+" -> IF peek = "+" THEN two("INCREMENT", "++")
                        ELSE IF peek = "=" THEN two("PLUS_ASSIGN", "+=")
                        ELSE one("PLUS")
          [] c = "-" -> IF peek = "-" THEN two("DECREMENT", "--")
                        ELSE IF peek = "=" THEN two("MINUS_ASSIGN", "-=")
                        ELSE one("MINUS")
          [] c = "*" -> IF peek = "=" THEN two("MUL_ASSIGN", "*=") ELSE one("ASTERISK")
          [] c = "/" -> IF peek = "/"
                        THEN ReturnedRead("COMMENT", l.line, l.column, readLineComment(l))
                        ELSE IF peek = "*"
                        THEN ReturnedRead("COMMENT", l.line, l.column, readBlockComment(l))
                        ELSE IF peek = "=" THEN two("DIV_ASSIGN", "/=")
                        ELSE one("SLASH")
          [] c = "#" -> ReturnedRead("COMMENT", l.line, l.column, readLineComment(l))
          [] c = "%" -> one("PERCENT")
          [] c = "!" -> IF peek = "=" THEN two("NEQ", "!=") ELSE one("BANG")
          [] c = "&" -> IF peek = "&" THEN two("AND", "&&") ELSE one("AMPERSAND")
          [] c = "|" -> IF peek = "|" THEN two("OR", "||") ELSE one("ILLEGAL")
          [] c = "<" -> IF peek = "=" THEN two("LTE", "<=") ELSE one("LT")
          [] c = ">" -> IF peek = "=" THEN two("GTE", ">=") ELSE one("GT")
          [] c = ":" -> IF peek = "=" THEN two("WALRUS", ":=") ELSE one("COLON")
          [] c = "," -> one("COMMA")
          [] c = ";" -> one("SEMICOLON")
          [] c = "." -> one("DOT")
          [] c = "(" -> one("LPAREN")
          [] c = ")" -> one("RPAREN")
          [] c = "{" -> one("LBRACE")
          [] c = "}" -> one("RBRACE")
          [] c = "[" -> one("LBRACKET")
          [] c = "]" -> one("RBRACKET")
          [] c = "\"" -> ReturnedRead("STRING", l.line, l.column, readString(l))
          [] c = "'" -> ReturnedRead("CHAR", l.line, l.column, readChar2(l))
          [] OTHER ->
                IF isLetter(l.ch) THEN
                    With(readIdentifier(l), LAMBDA r :
                        ReturnedRead(LookupIdent(r.str), l.line, l.column, r))
                ELSE IF isDigit(l.ch) THEN
                    With(readNumber(l), LAMBDA r :
                        ReturnedRead(r.tokenType, l.line, l.column, r))
                ELSE one("ILLEGAL")

(***************************************************************************)
(* The parser (package parser).  A Parser is the record of its fields: l  *)
(* (its lexer), curToken, peekToken and errors; panic says that its lexer  *)
(* panicked (the tokens then read as EOF, the state is dead).  Four        *)
(* history fields: n counts the calls of nextToken, stuck says that some   *)
(* loop went round without a call of nextToken, silent that some           *)
(* production returned nil without a diagnostic recorded since it began,   *)
(* illegal that the lexer has delivered an ILLEGAL token.                  *)
(* A parse function returns the parser it leaves and the node it returns.  *)
(***************************************************************************)
LOWEST == 1
ASSIGN == 2
OR == 3
AND == 4
EQUALS == 5
LESSGREATER == 6
SUM == 7
PRODUCT == 8
PREFIX == 9
POSTFIX == 10
CALL == 11
INDEX == 12
MEMBER == 13

\* the map precedences, with LOWEST for a token type that is no key
precedences(t) ==
    CASE t \in {"ASSIGN", "PLUS_ASSIGN", "MINUS_ASSIGN", "MUL_ASSIGN", "DIV_ASSIGN"} -> ASSIGN
      [] t = "OR" -> OR
      [] t = "AND" -> AND
      [] t \in {"EQ", "NEQ"} -> EQUALS
      [] t \in {"LT", "GT", "LTE", "GTE"} -> LESSGREATER
      [] t \in {"PLUS", "MINUS"} -> SUM
      [] t \in {"ASTERISK", "SLASH", "PERCENT"} -> PRODUCT
      [] t \in {"INCREMENT", "DECREMENT"} -> POSTFIX
      [] t = "LPAREN" -> CALL
      [] t = "LBRACKET" -> INDEX
      [] t = "DOT" -> MEMBER
      [] OTHER -> LOWEST

\* TokenType.String(): the map tokenNames
tokenNames(t) ==
    CASE t = "ASSIGN" -> "=" [] t = "PLUS" -> "+" [] t = "MINUS" -> "-"
      [] t = "ASTERISK" -> "*" [] t = "SLASH" -> "/" [] t = "PERCENT" -> "%"
      [] t = "BANG" -> "!" [] t = "AMPERSAND" -> "&" [] t = "LT" -> "<"
      [] t = "GT" -> ">" [] t = "LTE" -> "<=" [] t = "GTE" -> ">="
      [] t = "EQ" -> "==" [] t = "NEQ" -> "!=" [] t = "AND" -> "&&"
      [] t = "OR" -> "||" [] t = "INCREMENT" -> "++" [] t = "DECREMENT" -> "--"
      [] t = "PLUS_ASSIGN" -> "+=" [] t = "MINUS_ASSIGN" -> "-="
      [] t = "MUL_ASSIGN" -> "*=" [] t = "DIV_ASSIGN" -> "/="
      [] t = "WALRUS" -> ":=" [] t = "COMMA" -> "," [] t = "SEMICOLON" -> ";"
      [] t = "COLON" -> ":" [] t = "DOT" -> "." [] t = "ARROW" -> "=>"
      [] t = "LPAREN" -> "(" [] t = "RPAREN" -> ")" [] t = "LBRACE" -> "{"
      [] t = "RBRACE" -> "}" [] t = "LBRACKET" -> "[" [] t = "RBRACKET" -> "]"
      [] t \in {"ILLEGAL", "EOF", "COMMENT", "IDENT", "INT", "FLOAT", "STRING", "CHAR"} -> t
      [] OTHER -> CHOOSE k \in DOMAIN keywords : keywords[k] = t

\* the zero value of lexer.Token
ZeroToken == Token("ILLEGAL", "", 0, 0)

\* what a dead parser reads
DeadToken == Token("EOF", "", 0, 0)

\* the value of a string of digits in the base, or -1 if a digit is not of the base
RECURSIVE DigitsValue(_, _, _)
DigitsValue(digits, base, acc) ==
    IF Len(digits) = 0 THEN acc
    ELSE With(Ord(SubSeq(digits, 1, 1)) - 48, LAMBDA d :
             IF d < 0 \/ d >= base THEN -1
             ELSE DigitsValue(SubSeq(digits, 2, Len(digits)), base, acc * base + d))

\* strconv.ParseInt(s, 0, 64) on the literal of an INT token (digits only): a
\* leading 0 makes it octal.  -1 stands for the error.  Literals of more than
\* nine digits are outside the model.
ParseInt(s) ==
    IF Len(s) > 1 /\ SubSeq(s, 1, 1) = "0"
    THEN DigitsValue(SubSeq(s, 2, Len(s)), 8, 0)
    ELSE DigitsValue(s, 10, 0)

\* strconv.Atoi with its error dropped (the value is 0 then)
Atoi(s) == DigitsValue(s, 10, 0)

\* the position of the first "." in s, or 0
RECURSIVE IndexOfDot(_, _)
IndexOfDot(s, i) ==
    IF i > Len(s) THEN 0 ELSE IF SubSeq(s, i, i) = "." THEN i ELSE IndexOfDot(s, i + 1)

\* strconv.ParseFloat on the literal of a FLOAT token (digits "." digits), kept
\* as the whole part and the first six decimals (see FloatLiteral)
ParseFloat(s) ==
    With(IndexOfDot(s, 1), LAMBDA dot :
        With(SubSeq(s, dot + 1, Len(s)), LAMBDA frac :
        With(SubSeq(frac \o "000000", 1, 6), LAMBDA six :
        <<DigitsValue(SubSeq(s, 1, dot - 1), 10, 0), DigitsValue(six, 10, 0)>>)))

Res(p, node) == [p |-> p, node |-> node]

\* p.errors = append(p.errors, msg)
AddError(p, msg) == IF p.panic THEN p ELSE [p EXCEPT !.errors = Append(@, msg)]

\* "return nil" in a production that began in state p0
Fail(p, p0) ==
    Res([p EXCEPT !.silent = @ \/ (~p.panic /\ Len(p.errors) = Len(p0.errors))], Nil)

\* nextToken with "if" for "for": one comment is skipped
skipOneComment(l) ==
    With(NextToken(l), LAMBDA r :
        IF ~r.panic /\ r.tok.Type = "COMMENT" THEN NextToken(r.l) ELSE r)

\* the loop of nextToken: NextToken until the token is no COMMENT
RECURSIVE nextNonComment(_)
nextNonComment(l) ==
    With(NextToken(l), LAMBDA r :
        IF ~r.panic /\ r.tok.Type = "COMMENT" THEN nextNonComment(r.l) ELSE r)

\* A call of one of the functions through which the parser re-enters itself is
\* resolved by the function's name, in Call below.
RECURSIVE Call(_, _, _)

nextToken(p) == Call("nextToken", p, <<>>)

parseTypeAnnotation(p) == Call("parseTypeAnnotation", p, <<>>)

parseExpression(p, precedence) == Call("parseExpression", p, <<precedence>>)

parseStatement(p) == Call("parseStatement", p, <<>>)

parseBlockStatement(p) == Call("parseBlockStatement", p, <<>>)

nextTokenBody(p) ==
    IF p.panic THEN p
    ELSE With(nextNonComment(p.l), LAMBDA r :
             IF r.panic
             THEN [p EXCEPT !.panic = TRUE, !.curToken = DeadToken, !.peekToken = DeadToken]
             ELSE [p EXCEPT !.curToken = p.peekToken, !.peekToken = r.tok, !.l = r.l,
                            !.n = @ + 1, !.illegal = @ \/ r.tok.Type = "ILLEGAL"])

curTokenIs(p, t) == p.curToken.Type = t

peekTokenIs(p, t) == p.peekToken.Type = t

peekError(p, t) ==
    AddError(p, "line " \o ToString(p.peekToken.Line) \o ": expected " \o tokenNames(t)
                    \o ", got " \o tokenNames(p.peekToken.Type) \o " instead")

\* expectPeek returns the parser it leaves and its boolean
expectPeek(p, t) ==
    IF peekTokenIs(p, t) THEN [p |-> nextToken(p), ok |-> TRUE]
    ELSE [p |-> peekError(p, t), ok |-> FALSE]

\* the parser a production goes on with after "if !p.expectPeek(t) { return
\* nil }".  After a failed expectPeek the production has returned: what its
\* definition computes from there on is not used, and is computed on a parser
\* that reads nothing.
After(e) ==
    IF e.ok THEN e.p
    ELSE [e.p EXCEPT !.panic = TRUE, !.curToken = DeadToken, !.peekToken = DeadToken]

curPrecedence(p) == precedences(p.curToken.Type)

peekPrecedence(p) == precedences(p.peekToken.Type)

\* parser.New
NewParser(l) ==
    nextToken(nextToken([l |-> l, errors |-> <<>>, curToken |-> ZeroToken,
                         peekToken |-> ZeroToken, panic |-> FALSE, n |-> 0,
                         stuck |-> FALSE, silent |-> FALSE, illegal |-> FALSE]))

\* the end of a loop iteration that began in state p0: the history field stuck
NoteProgress(p, p0) == IF p.panic \/ p.n > p0.n THEN p ELSE [p EXCEPT !.stuck = TRUE]

\* nextToken if the next token is a semicolon
skipSemicolon(p) == IF peekTokenIs(p, "SEMICOLON") THEN nextToken(p) ELSE p

\* the token types with an entry in prefixParseFns, and in infixParseFns
PrefixTypes ==
    {"IDENT", "INT", "FLOAT", "STRING", "CHAR", "TRUE", "FALSE", "NULL", "BANG", "MINUS",
     "AMPERSAND", "ASTERISK", "LPAREN", "LBRACKET", "ALLOC", "LEN", "MAKE", "MAP"}

InfixTypes ==
    {"PLUS", "MINUS", "ASTERISK", "SLASH", "PERCENT", "EQ", "NEQ", "LT", "GT", "LTE", "GTE",
     "AND", "OR", "ASSIGN", "PLUS_ASSIGN", "MINUS_ASSIGN", "MUL_ASSIGN", "DIV_ASSIGN",
     "INCREMENT", "DECREMENT", "LPAREN", "LBRACKET", "DOT"}

isType(p) ==
    p.curToken.Type \in {"TYPE_INT", "TYPE_FLOAT", "TYPE_STRING", "TYPE_CHAR", "TYPE_BOOL",
                         "TYPE_VOID", "ASTERISK"}

parseTypeAnnotationBody(p) ==
    With(curTokenIs(p, "ASTERISK"), LAMBDA ptr :
        With(IF ptr THEN nextToken(p) ELSE p, LAMBDA p1 :
        IF curTokenIs(p1, "MAP") THEN
            With(expectPeek(p1, "LBRACKET"), LAMBDA e1 :
                With(parseTypeAnnotation(nextToken(After(e1))), LAMBDA k :
                With(expectPeek(k.p, "RBRACKET"), LAMBDA e2 :
                With(parseTypeAnnotation(nextToken(After(e2))), LAMBDA v :
                IF ~e1.ok THEN Fail(e1.p, p)
                ELSE IF ~e2.ok THEN Fail(e2.p, p)
                ELSE Res(v.p, [TypeAnnotation("", ptr, 0) EXCEPT
                                  !.IsMap = TRUE, !.KeyType = k.node, !.ValueType = v.node])))))
        ELSE IF curTokenIs(p1, "LBRACKET") THEN
            With(nextToken(p1), LAMBDA p2 :
                With(IF curTokenIs(p2, "RBRACKET") THEN -1
                     ELSE IF curTokenIs(p2, "INT")
                     THEN (IF Atoi(p2.curToken.Literal) < 0 THEN 0
                           ELSE Atoi(p2.curToken.Literal))
                     ELSE 0, LAMBDA len :
                With(IF ~curTokenIs(p2, "RBRACKET") /\ curTokenIs(p2, "INT")
                     THEN nextToken(p2) ELSE p2, LAMBDA p3 :
                With(nextToken(p3), LAMBDA p4 :
                Res(p4, TypeAnnotation(p4.curToken.Literal, ptr, len))))))
        ELSE Res(p1, TypeAnnotation(p1.curToken.Literal, ptr, 0))))

\* a parse function that returns a list returns the parser it leaves and the
\* list; a nil slice is the empty list
ResList(p, list) == [p |-> p, list |-> list]

FailList(p, p0) == ResList(Fail(p, p0).p, <<>>)

\* the loop "for p.peekTokenIs(COMMA)" of the expression lists
RECURSIVE moreExpressions(_, _)
moreExpressions(p, list) ==
    IF peekTokenIs(p, "COMMA")
    THEN With(parseExpression(nextToken(nextToken(p)), LOWEST), LAMBDA e :
             IF NoteProgress(e.p, p).stuck THEN ResList(NoteProgress(e.p, p), list)
             ELSE moreExpressions(e.p, Append(list, e.node)))
    ELSE ResList(p, list)

parseExpressionList(p, end) ==
    IF peekTokenIs(p, end) THEN ResList(nextToken(p), <<>>)
    ELSE With(parseExpression(nextToken(p), LOWEST), LAMBDA first :
             With(moreExpressions(first.p, <<first.node>>), LAMBDA rest :
             With(expectPeek(rest.p, end), LAMBDA e :
             IF ~e.ok THEN FailList(e.p, p) ELSE ResList(e.p, rest.list))))

parseExpressionListBrace(p) ==
    IF ~curTokenIs(p, "LBRACE") THEN ResList(p, <<>>)
    ELSE IF peekTokenIs(p, "RBRACE") THEN ResList(nextToken(p), <<>>)
    ELSE With(parseExpression(nextToken(p), LOWEST), LAMBDA first :
             With(moreExpressions(first.p, <<first.node>>), LAMBDA rest :
             With(expectPeek(rest.p, "RBRACE"), LAMBDA e :
             IF ~e.ok THEN FailList(e.p, p) ELSE ResList(e.p, rest.list))))

parseIdentifier(p) == Res(p, Identifier(p.curToken.Literal))

parseIntegerLiteral(p) ==
    IF ParseInt(p.curToken.Literal) < 0
    THEN Fail(AddError(p, "line " \o ToString(p.curToken.Line) \o ": could not parse \""
                              \o p.curToken.Literal \o "\" as integer"), p)
    ELSE Res(p, [IntegerLiteral(ParseInt(p.curToken.Literal)) EXCEPT
                    !.Token = p.curToken.Literal])

\* the literal of a FLOAT token always parses
parseFloatLiteral(p) ==
    Res(p, [FloatLiteral(ParseFloat(p.curToken.Literal)[1],
                         ParseFloat(p.curToken.Literal)[2]) EXCEPT
               !.Token = p.curToken.Literal])

parseStringLiteral(p) == Res(p, StringLiteral(p.curToken.Literal))

parseCharLiteral(p) ==
    Res(p, CharLiteral(IF Len(p.curToken.Literal) > 0
                       THEN SubSeq(p.curToken.Literal, 1, 1) ELSE Chr(0)))

parseBooleanLiteral(p) == Res(p, BooleanLiteral(curTokenIs(p, "TRUE")))

parseNullLiteral(p) == Res(p, NullLiteral)

parsePrefixExpression(p) ==
    With(parseExpression(nextToken(p), PREFIX), LAMBDA right :
        Res(right.p, PrefixExpression(p.curToken.Literal, right.node)))

\* parseInfixExpression with the right operand parsed one level lower
parseInfixExpressionLower(p, left) ==
    With(parseExpression(nextToken(p), curPrecedence(p) - 1), LAMBDA right :
        Res(right.p, InfixExpression(left, p.curToken.Literal, right.node)))

parseInfixExpression(p, left) ==
    With(parseExpression(nextToken(p), curPrecedence(p)), LAMBDA right :
        Res(right.p, InfixExpression(left, p.curToken.Literal, right.node)))

parsePostfixExpression(p, left) == Res(p, PostfixExpression(left, p.curToken.Literal))

parseAssignExpression(p, left) ==
    With(parseExpression(nextToken(p), LOWEST), LAMBDA value :
        Res(value.p, AssignExpression(left, p.curToken.Literal, value.node)))

parseGroupedOrCast(p) ==
    With(nextToken(p), LAMBDA p1 :
        IF isType(p1) THEN
            With(parseTypeAnnotation(p1), LAMBDA typeAnn :
                With(expectPeek(typeAnn.p, "RPAREN"), LAMBDA e :
                With(parseExpression(nextToken(After(e)), PREFIX), LAMBDA value :
                IF ~e.ok THEN Fail(e.p, p)
                ELSE Res(value.p, CastExpression(typeAnn.node, value.node)))))
        ELSE
            With(parseExpression(p1, LOWEST), LAMBDA exp :
                With(expectPeek(exp.p, "RPAREN"), LAMBDA e :
                IF ~e.ok THEN Fail(e.p, p) ELSE Res(e.p, exp.node))))

parseCallExpression(p, function) ==
    With(parseExpressionList(p, "RPAREN"), LAMBDA args :
        Res(args.p, CallExpression(function, args.list)))

parseIndexExpression(p, left) ==
    With(parseExpression(nextToken(p), LOWEST), LAMBDA index :
        With(expectPeek(index.p, "RBRACKET"), LAMBDA e :
        IF ~e.ok THEN Fail(e.p, p) ELSE Res(e.p, IndexExpression(left, index.node))))

parseMemberExpression(p, left) ==
    With(nextToken(p), LAMBDA p1 :
        Res(p1, MemberExpression(left, Identifier(p1.curToken.Literal))))

\* the part of parseArrayOrSliceLiteral after "[]" or "[n]": the element type
\* and the braces; onOther is what is returned when no type follows
arrayOfType(p, length, onOther) ==
    IF curTokenIs(p, "IDENT") \/ isType(p) THEN
        With(TypeAnnotation(p.curToken.Literal, FALSE, length), LAMBDA type :
            With(nextToken(p), LAMBDA p1 :
            With(parseExpressionListBrace(p1), LAMBDA elements :
            IF curTokenIs(p1, "LBRACE")
            THEN Res(elements.p, ArrayLiteral(type, elements.list))
            ELSE Res(p1, ArrayLiteral(type, <<>>)))))
    ELSE onOther

parseArrayOrSliceLiteral(p) ==
    With(nextToken(p), LAMBDA p1 :
        IF curTokenIs(p1, "RBRACKET") THEN
            With(nextToken(p1), LAMBDA p2 :
                arrayOfType(p2, -1, Res(p2, ArrayLiteral(Nil, <<>>))))
        ELSE IF curTokenIs(p1, "INT") THEN
            With(IF Atoi(p1.curToken.Literal) < 0 THEN 0
                 ELSE Atoi(p1.curToken.Literal), LAMBDA length :
                With(nextToken(p1), LAMBDA p2 :
                With(nextToken(p2), LAMBDA p3 :
                IF ~curTokenIs(p2, "RBRACKET") THEN Fail(p2, p)
                ELSE arrayOfType(p3, length, Fail(p3, p)))))
        ELSE
            With(parseExpression(p1, LOWEST), LAMBDA first :
                With(moreExpressions(first.p, <<first.node>>), LAMBDA rest :
                With(expectPeek(rest.p, "RBRACKET"), LAMBDA e :
                IF ~e.ok THEN Fail(e.p, p) ELSE Res(e.p, ArrayLiteral(Nil, rest.list))))))

parseLenExpression(p) ==
    With(expectPeek(p, "LPAREN"), LAMBDA e :
        With(parseExpressionList(After(e), "RPAREN"), LAMBDA args :
        IF ~e.ok THEN Fail(e.p, p)
        ELSE Res(args.p, CallExpression(Identifier("len"), args.list))))

parseMakeExpression(p) ==
    With(expectPeek(p, "LPAREN"), LAMBDA e1 :
        With(parseTypeAnnotation(nextToken(After(e1))), LAMBDA type :
        With(peekTokenIs(type.p, "COMMA"), LAMBDA hasLength :
        With(parseExpression(nextToken(nextToken(type.p)), LOWEST), LAMBDA length :
        With(hasLength /\ peekTokenIs(length.p, "COMMA"), LAMBDA hasCapacity :
        With(parseExpression(nextToken(nextToken(length.p)), LOWEST), LAMBDA capacity :
        With(IF hasCapacity THEN capacity.p ELSE IF hasLength THEN length.p ELSE type.p, LAMBDA p2 :
        With(expectPeek(p2, "RPAREN"), LAMBDA e2 :
        IF ~e1.ok THEN Fail(e1.p, p)
        ELSE IF ~e2.ok THEN Fail(e2.p, p)
        ELSE Res(e2.p, MakeExpression(type.node,
                                      IF hasLength THEN length.node ELSE Nil,
                                      IF hasCapacity THEN capacity.node ELSE Nil))))))))))

parseAllocExpression(p) ==
    With(expectPeek(p, "LPAREN"), LAMBDA e1 :
        With(parseTypeAnnotation(nextToken(After(e1))), LAMBDA type :
        With(expectPeek(type.p, "RPAREN"), LAMBDA e2 :
        IF ~e1.ok THEN Fail(e1.p, p)
        ELSE IF ~e2.ok THEN Fail(e2.p, p)
        ELSE Res(e2.p, AllocExpression(type.node)))))

\* one "key: value" of parseMapPairs, begun with the key as current token
parseMapPair(p) ==
    With(parseExpression(p, LOWEST), LAMBDA key :
        With(expectPeek(key.p, "COLON"), LAMBDA e :
        With(parseExpression(nextToken(After(e)), LOWEST), LAMBDA value :
        IF ~e.ok THEN [p |-> e.p, ok |-> FALSE, node |-> Nil]
        ELSE [p |-> value.p, ok |-> TRUE, node |-> MapPair(key.node, value.node)])))

RECURSIVE moreMapPairs(_, _)
moreMapPairs(p, pairs) ==
    IF peekTokenIs(p, "COMMA")
    THEN With(parseMapPair(nextToken(nextToken(p))), LAMBDA pair :
             IF ~pair.ok THEN [p |-> pair.p, ok |-> FALSE, list |-> <<>>]
             ELSE IF NoteProgress(pair.p, p).stuck
             THEN [p |-> NoteProgress(pair.p, p), ok |-> TRUE, list |-> pairs]
             ELSE moreMapPairs(pair.p, Append(pairs, pair.node)))
    ELSE [p |-> p, ok |-> TRUE, list |-> pairs]

parseMapPairs(p) ==
    IF peekTokenIs(p, "RBRACE") THEN ResList(nextToken(p), <<>>)
    ELSE With(parseMapPair(nextToken(p)), LAMBDA first :
             With(moreMapPairs(first.p, <<first.node>>), LAMBDA rest :
             With(expectPeek(rest.p, "RBRACE"), LAMBDA e :
             IF ~first.ok THEN FailList(first.p, p)
             ELSE IF ~rest.ok THEN FailList(rest.p, p)
             ELSE IF ~e.ok THEN FailList(e.p, p)
             ELSE ResList(e.p, rest.list))))

parseMapLiteral(p) ==
    With(expectPeek(p, "LBRACKET"), LAMBDA e1 :
        With(parseTypeAnnotation(nextToken(After(e1))), LAMBDA k :
        With(expectPeek(k.p, "RBRACKET"), LAMBDA e2 :
        With(parseTypeAnnotation(nextToken(After(e2))), LAMBDA v :
        With(expectPeek(v.p, "LBRACE"), LAMBDA e3 :
        With(parseMapPairs(After(e3)), LAMBDA pairs :
        With([TypeAnnotation("", FALSE, 0) EXCEPT
                 !.IsMap = TRUE, !.KeyType = k.node, !.ValueType = v.node], LAMBDA type :
        IF ~e1.ok THEN Fail(e1.p, p)
        ELSE IF ~e2.ok THEN Fail(e2.p, p)
        ELSE IF ~e3.ok THEN Fail(e3.p, p)
        ELSE Res(pairs.p, MapLiteral(type, pairs.list)))))))))

\* p.prefixParseFns[p.curToken.Type]()
prefixParseFns(p) ==
    With(p.curToken.Type, LAMBDA t :
        CASE t = "IDENT" -> parseIdentifier(p)
          [] t = "INT" -> parseIntegerLiteral(p)
          [] t = "FLOAT" -> parseFloatLiteral(p)
          [] t = "STRING" -> parseStringLiteral(p)
          [] t = "CHAR" -> parseCharLiteral(p)
          [] t \in {"TRUE", "FALSE"} -> parseBooleanLiteral(p)
          [] t = "NULL" -> parseNullLiteral(p)
          [] t \in {"BANG", "MINUS", "AMPERSAND", "ASTERISK"} -> parsePrefixExpression(p)
          [] t = "LPAREN" -> parseGroupedOrCast(p)
          [] t = "LBRACKET" -> parseArrayOrSliceLiteral(p)
          [] t = "ALLOC" -> parseAllocExpression(p)
          [] t = "LEN" -> parseLenExpression(p)
          [] t = "MAKE" -> parseMakeExpression(p)
          [] t = "MAP" -> parseMapLiteral(p))

\* p.infixParseFns[p.curToken.Type](left)
infixParseFns(p, left) ==
    With(p.curToken.Type, LAMBDA t :
        CASE t \in {"ASSIGN", "PLUS_ASSIGN", "MINUS_ASSIGN", "MUL_ASSIGN", "DIV_ASSIGN"} ->
                parseAssignExpression(p, left)
          [] t \in {"INCREMENT", "DECREMENT"} -> parsePostfixExpression(p, left)
          [] t = "LPAREN" -> parseCallExpression(p, left)
          [] t = "LBRACKET" -> parseIndexExpression(p, left)
          [] t = "DOT" -> parseMemberExpression(p, left)
          [] OTHER -> parseInfixExpression(p, left))

\* the loop of parseExpression
RECURSIVE infixLoop(_, _)
infixLoop(left, precedence) ==
    IF ~peekTokenIs(left.p, "SEMICOLON") /\ precedence < peekPrecedence(left.p)
    THEN IF left.p.peekToken.Type \notin InfixTypes THEN left
         ELSE With(infixParseFns(nextToken(left.p), left.node), LAMBDA next :
                  IF NoteProgress(next.p, left.p).stuck
                  THEN Res(NoteProgress(next.p, left.p), next.node)
                  ELSE infixLoop(next, precedence))
    ELSE left

parseExpressionBody(p, precedence) ==
    IF p.curToken.Type \notin PrefixTypes
    THEN Fail(AddError(p, "line " \o ToString(p.curToken.Line)
                              \o ": no prefix parse function for "
                              \o tokenNames(p.curToken.Type)), p)
    ELSE infixLoop(prefixParseFns(p), precedence)

\* a *T returned through the interface ast.Statement: a nil *T makes a typed nil
Typed(r, type) == IF r.node = Nil THEN Res(r.p, TypedNil(type)) ELSE r

parseImportStatement(p) ==
    With(expectPeek(p, "STRING"), LAMBDA e :
        IF ~e.ok THEN Fail(e.p, p)
        ELSE Res(skipSemicolon(e.p), ImportStatement(e.p.curToken.Literal)))

\* one parameter, begun with its name as current token
parseParameter(p) ==
    With(parseTypeAnnotation(nextToken(p)), LAMBDA type :
        Res(type.p, Parameter(Identifier(p.curToken.Literal), type.node)))

RECURSIVE moreParameters(_, _)
moreParameters(p, params) ==
    IF peekTokenIs(p, "COMMA")
    THEN With(parseParameter(nextToken(nextToken(p))), LAMBDA param :
             IF NoteProgress(param.p, p).stuck THEN ResList(NoteProgress(param.p, p), params)
             ELSE moreParameters(param.p, Append(params, param.node)))
    ELSE ResList(p, params)

parseFunctionParameters(p) ==
    IF peekTokenIs(p, "RPAREN") THEN ResList(nextToken(p), <<>>)
    ELSE With(parseParameter(nextToken(p)), LAMBDA first :
             With(moreParameters(first.p, <<first.node>>), LAMBDA rest :
             With(expectPeek(rest.p, "RPAREN"), LAMBDA e :
             IF ~e.ok THEN FailList(e.p, p) ELSE ResList(e.p, rest.list))))

\* parseFunctionStatement from "// Function name" on; p0 is where it began
functionFromName(p, p0, public, receiver) ==
    With(expectPeek(p, "LPAREN"), LAMBDA e1 :
        With(parseFunctionParameters(After(e1)), LAMBDA params :
        With(parseTypeAnnotation(nextToken(params.p)), LAMBDA returnType :
        With(expectPeek(IF ~peekTokenIs(params.p, "LBRACE") THEN returnType.p
                        ELSE params.p, "LBRACE"), LAMBDA e2 :
        With(parseBlockStatement(After(e2)), LAMBDA body :
        IF ~curTokenIs(p, "IDENT")
        THEN Fail(AddError(p, "line " \o ToString(p.curToken.Line)
                                  \o ": expected function name, got "
                                  \o tokenNames(p.curToken.Type)), p0)
        ELSE IF ~e1.ok THEN Fail(e1.p, p0)
        ELSE IF ~e2.ok THEN Fail(e2.p, p0)
        ELSE Res(body.p, FunctionStatement(public, receiver, Identifier(p.curToken.Literal),
                                           params.list,
                                           IF ~peekTokenIs(params.p, "LBRACE")
                                           THEN returnType.node ELSE Nil,
                                           body.node)))))))

parseFunctionStatement(p, public) ==
    IF peekTokenIs(p, "LPAREN") THEN
        With(nextToken(nextToken(p)), LAMBDA p1 :
            With(parseParameter(p1), LAMBDA receiver :
            With(expectPeek(receiver.p, "RPAREN"), LAMBDA e :
            IF ~e.ok THEN Fail(e.p, p)
            ELSE functionFromName(nextToken(e.p), p, public, receiver.node))))
    ELSE functionFromName(nextToken(p), p, public, Nil)

\* one round of the loop of parseStructFields: a field
structFieldRound(p) ==
    With(nextToken(p), LAMBDA p1 :
        With(curTokenIs(p1, "PUBLIC"), LAMBDA public :
        With(IF public THEN nextToken(p1) ELSE p1, LAMBDA p2 :
        With(parseTypeAnnotation(nextToken(p2)), LAMBDA type :
        Res(skipSemicolon(type.p),
            StructField(public, Identifier(p2.curToken.Literal), type.node))))))

\* the loop of parseStructFields
RECURSIVE structFieldsLoop(_, _)
structFieldsLoop(p, fields) ==
    IF ~peekTokenIs(p, "RBRACE") /\ ~peekTokenIs(p, "EOF") THEN
        With(structFieldRound(p), LAMBDA field :
            IF NoteProgress(field.p, p).stuck THEN ResList(NoteProgress(field.p, p), fields)
            ELSE structFieldsLoop(field.p, Append(fields, field.node)))
    ELSE ResList(p, fields)

parseStructFields(p) ==
    With(structFieldsLoop(p, <<>>), LAMBDA fields :
        ResList(nextToken(fields.p), fields.list))

parseStructStatement(p, public) ==
    With(expectPeek(p, "IDENT"), LAMBDA e1 :
        With(expectPeek(After(e1), "LBRACE"), LAMBDA e2 :
        With(parseStructFields(After(e2)), LAMBDA fields :
        IF ~e1.ok THEN Fail(e1.p, p)
        ELSE IF ~e2.ok THEN Fail(e2.p, p)
        ELSE Res(fields.p, StructStatement(public, Identifier(e1.p.curToken.Literal),
                                           fields.list)))))

\* one round of the loop of parseEnumValues: a name and, after "=", its value
enumValueRound(p) ==
    With(nextToken(p), LAMBDA p1 :
        With(IF peekTokenIs(p1, "ASSIGN")
             THEN parseExpression(nextToken(nextToken(p1)), LOWEST)
             ELSE Res(p1, Nil), LAMBDA value :
        Res(IF peekTokenIs(value.p, "COMMA") THEN nextToken(value.p) ELSE value.p,
            EnumValue(Identifier(p1.curToken.Literal), value.node))))

\* the loop of parseEnumValues
RECURSIVE enumValuesLoop(_, _)
enumValuesLoop(p, values) ==
    IF ~peekTokenIs(p, "RBRACE") /\ ~peekTokenIs(p, "EOF") THEN
        With(enumValueRound(p), LAMBDA enumValue :
            IF NoteProgress(enumValue.p, p).stuck
            THEN ResList(NoteProgress(enumValue.p, p), values)
            ELSE enumValuesLoop(enumValue.p, Append(values, enumValue.node)))
    ELSE ResList(p, values)

parseEnumValues(p) ==
    With(enumValuesLoop(p, <<>>), LAMBDA values :
        ResList(nextToken(values.p), values.list))

parseEnumStatement(p, public) ==
    With(expectPeek(p, "IDENT"), LAMBDA e1 :
        With(expectPeek(After(e1), "LBRACE"), LAMBDA e2 :
        With(parseEnumValues(After(e2)), LAMBDA values :
        IF ~e1.ok THEN Fail(e1.p, p)
        ELSE IF ~e2.ok THEN Fail(e2.p, p)
        ELSE Res(values.p, EnumStatement(public, Identifier(e1.p.curToken.Literal),
                                         values.list)))))

parsePublicStatement(p) ==
    With(nextToken(p), LAMBDA p1 :
        CASE curTokenIs(p1, "FUNCTION") ->
                Typed(parseFunctionStatement(p1, TRUE), "FunctionStatement")
          [] curTokenIs(p1, "STRUCT") ->
                Typed(parseStructStatement(p1, TRUE), "StructStatement")
          [] curTokenIs(p1, "ENUM") ->
                Typed(parseEnumStatement(p1, TRUE), "EnumStatement")
          [] OTHER ->
                Fail(AddError(p1, "line " \o ToString(p1.curToken.Line)
                                      \o ": unexpected token after 'public': "
                                      \o tokenNames(p1.curToken.Type)), p))

\* one round of the loop that ParseProgram and parseBlockStatement share: parse
\* a statement, append it unless the interface value is nil, nextToken
statementRound(p, stmts) ==
    With(parseStatement(p), LAMBDA stmt :
        ResList(NoteProgress(nextToken(stmt.p), p),
                IF stmt.node # Nil THEN Append(stmts, stmt.node) ELSE stmts))

RECURSIVE blockLoop(_, _)
blockLoop(p, stmts) ==
    IF ~curTokenIs(p, "RBRACE") /\ ~curTokenIs(p, "EOF") THEN
        With(statementRound(p, stmts), LAMBDA round :
            IF round.p.stuck THEN round ELSE blockLoop(round.p, round.list))
    ELSE ResList(p, stmts)

parseBlockStatementBody(p) ==
    With(blockLoop(nextToken(p), <<>>), LAMBDA block :
        Res(block.p, BlockStatement(block.list)))

parseVarStatement(p) ==
    With(expectPeek(p, "IDENT"), LAMBDA e :
        With(parseTypeAnnotation(nextToken(After(e))), LAMBDA type :
        With(peekTokenIs(type.p, "ASSIGN"), LAMBDA hasValue :
        With(parseExpression(nextToken(nextToken(type.p)), LOWEST), LAMBDA value :
        IF ~e.ok THEN Fail(e.p, p)
        ELSE Res(skipSemicolon(IF hasValue THEN value.p ELSE type.p),
                 VarStatement(Identifier(e.p.curToken.Literal), type.node,
                              IF hasValue THEN value.node ELSE Nil))))))

parseConstStatement(p) ==
    With(expectPeek(p, "IDENT"), LAMBDA e1 :
        With(expectPeek(After(e1), "WALRUS"), LAMBDA e2 :
        With(parseExpression(nextToken(After(e2)), LOWEST), LAMBDA value :
        IF ~e1.ok THEN Fail(e1.p, p)
        ELSE IF ~e2.ok THEN Fail(e2.p, p)
        ELSE Res(skipSemicolon(value.p),
                 ConstStatement(Identifier(e1.p.curToken.Literal), value.node)))))

parseInferStatement(p) ==
    With(expectPeek(p, "WALRUS"), LAMBDA e :
        With(parseExpression(nextToken(After(e)), LOWEST), LAMBDA value :
        IF ~e.ok THEN Fail(e.p, p)
        ELSE Res(skipSemicolon(value.p),
                 InferStatement(Identifier(p.curToken.Literal), value.node))))

parseReturnStatement(p) ==
    With(nextToken(p), LAMBDA p1 :
        With(parseExpression(p1, LOWEST), LAMBDA value :
        IF ~curTokenIs(p1, "SEMICOLON")
        THEN Res(skipSemicolon(value.p), ReturnStatement(value.node))
        ELSE Res(skipSemicolon(p1), ReturnStatement(Nil))))

parseIfStatement(p) ==
    With(parseExpression(nextToken(p), LOWEST), LAMBDA condition :
        With(expectPeek(condition.p, "LBRACE"), LAMBDA e1 :
        With(parseBlockStatement(After(e1)), LAMBDA consequence :
        With(expectPeek(nextToken(consequence.p), "LBRACE"), LAMBDA e2 :
        With(parseBlockStatement(After(e2)), LAMBDA alternative :
        IF ~e1.ok THEN Fail(e1.p, p)
        ELSE IF ~peekTokenIs(consequence.p, "ELSE")
        THEN Res(consequence.p, IfStatement(condition.node, consequence.node, Nil))
        ELSE IF ~e2.ok THEN Fail(e2.p, p)
        ELSE Res(alternative.p,
                 IfStatement(condition.node, consequence.node, alternative.node)))))))

parseForRangeStatementBody(p, index, value) ==
    With(parseExpression(nextToken(p), LOWEST), LAMBDA iterable :
        With(expectPeek(iterable.p, "LBRACE"), LAMBDA e :
        With(parseBlockStatement(After(e)), LAMBDA body :
        IF ~e.ok THEN Fail(e.p, p)
        ELSE Res(body.p, ForRangeStatement(index, value, iterable.node, body.node)))))

parseForRangeStatement(p, firstIdent, secondIdent) ==
    parseForRangeStatementBody(nextToken(p), firstIdent, secondIdent)

\* what parseForStatementWithInit and parseRegularForStatement share, from
\* "// Condition" on; p0 is where the production began
forFromCondition(p, p0, init) ==
    With(parseExpression(p, LOWEST), LAMBDA condition :
        With(expectPeek(IF ~curTokenIs(p, "SEMICOLON") THEN condition.p ELSE p,
                        "SEMICOLON"), LAMBDA e1 :
        With(nextToken(After(e1)), LAMBDA p1 :
        With(parseStatement(p1), LAMBDA post :
        With(IF ~curTokenIs(p1, "LBRACE") /\ ~curTokenIs(post.p, "LBRACE")
             THEN expectPeek(post.p, "LBRACE")
             ELSE [p |-> IF ~curTokenIs(p1, "LBRACE") THEN post.p ELSE p1, ok |-> TRUE],
             LAMBDA e2 :
        With(parseBlockStatement(After(e2)), LAMBDA body :
        IF ~e1.ok THEN Fail(e1.p, p0)
        ELSE IF ~e2.ok THEN Fail(e2.p, p0)
        ELSE Res(body.p, ForStatement(init,
                                      IF ~curTokenIs(p, "SEMICOLON") THEN condition.node
                                      ELSE Nil,
                                      IF ~curTokenIs(p1, "LBRACE") THEN post.node ELSE Nil,
                                      body.node))))))))

parseForStatementWithInit(p, firstIdent) ==
    With(parseExpression(nextToken(p), LOWEST), LAMBDA value :
        With(skipSemicolon(value.p), LAMBDA p1 :
        forFromCondition(IF curTokenIs(p1, "SEMICOLON") THEN nextToken(p1) ELSE p1, p,
                         InferStatement(Identifier(firstIdent.Literal), value.node))))

parseRegularForStatement(p) ==
    With(parseStatement(p), LAMBDA init :
        With(IF ~curTokenIs(p, "SEMICOLON") THEN init.p ELSE p, LAMBDA p1 :
        forFromCondition(IF curTokenIs(p1, "SEMICOLON") THEN nextToken(p1) ELSE p1, p,
                         IF ~curTokenIs(p, "SEMICOLON") THEN init.node ELSE Nil)))

\* "for i, v := range" after the comma was consumed
forRangeTwoVariables(p, p0, index) ==
    With(expectPeek(p, "IDENT"), LAMBDA e1 :
        With(expectPeek(After(e1), "WALRUS"), LAMBDA e2 :
        With(expectPeek(After(e2), "RANGE"), LAMBDA e3 :
        IF ~e1.ok THEN Fail(e1.p, p0)
        ELSE IF ~e2.ok THEN Fail(e2.p, p0)
        ELSE IF ~e3.ok THEN Fail(e3.p, p0)
        ELSE Typed(parseForRangeStatementBody(e3.p, index,
                                              Identifier(e1.p.curToken.Literal)),
                   "ForRangeStatement"))))

parseForStatement(p) ==
    With(nextToken(p), LAMBDA p1 :
        IF curTokenIs(p1, "IDENT") /\ peekTokenIs(p1, "WALRUS") THEN
            With(nextToken(p1), LAMBDA p2 :
                IF peekTokenIs(p2, "RANGE")
                THEN Typed(parseForRangeStatement(p2, Identifier(p1.curToken.Literal), Nil),
                           "ForRangeStatement")
                ELSE Typed(parseForStatementWithInit(p2, p1.curToken), "ForStatement"))
        ELSE IF curTokenIs(p1, "IDENT") /\ peekTokenIs(p1, "COMMA") THEN
            forRangeTwoVariables(nextToken(p1), p, Identifier(p1.curToken.Literal))
        ELSE IF curTokenIs(p1, "IDENT") /\ p1.curToken.Literal = "_"
                /\ peekTokenIs(p1, "COMMA") THEN
            forRangeTwoVariables(nextToken(p1), p, Nil)
        ELSE Typed(parseRegularForStatement(p1), "ForStatement"))

parseWhileStatement(p) ==
    With(parseExpression(nextToken(p), LOWEST), LAMBDA condition :
        With(expectPeek(condition.p, "LBRACE"), LAMBDA e :
        With(parseBlockStatement(After(e)), LAMBDA body :
        IF ~e.ok THEN Fail(e.p, p)
        ELSE Res(body.p, WhileStatement(condition.node, body.node)))))

parseFreeStatement(p) ==
    With(expectPeek(p, "LPAREN"), LAMBDA e1 :
        With(parseExpression(nextToken(After(e1)), LOWEST), LAMBDA value :
        With(expectPeek(value.p, "RPAREN"), LAMBDA e2 :
        IF ~e1.ok THEN Fail(e1.p, p)
        ELSE IF ~e2.ok THEN Fail(e2.p, p)
        ELSE Res(skipSemicolon(e2.p), FreeStatement(value.node)))))

parseDeferStatement(p) ==
    With(parseStatement(nextToken(p)), LAMBDA stmt :
        Res(stmt.p, DeferStatement(stmt.node)))

parseBreakStatement(p) == Res(skipSemicolon(p), BreakStatement)

parseContinueStatement(p) == Res(skipSemicolon(p), ContinueStatement)

parseExpressionStatement(p) ==
    With(parseExpression(p, LOWEST), LAMBDA e :
        Res(skipSemicolon(e.p), ExpressionStatement(e.node)))

parseDeleteStatement(p) ==
    With(expectPeek(p, "LPAREN"), LAMBDA e1 :
        With(parseExpression(nextToken(After(e1)), LOWEST), LAMBDA map :
        With(expectPeek(map.p, "COMMA"), LAMBDA e2 :
        With(parseExpression(nextToken(After(e2)), LOWEST), LAMBDA key :
        With(expectPeek(key.p, "RPAREN"), LAMBDA e3 :
        IF ~e1.ok THEN Fail(e1.p, p)
        ELSE IF ~e2.ok THEN Fail(e2.p, p)
        ELSE IF ~e3.ok THEN Fail(e3.p, p)
        ELSE Res(skipSemicolon(e3.p), DeleteStatement(map.node, key.node)))))))

\* "for p.curTokenIs(COMMENT) { p.nextToken() }"
RECURSIVE skipComments(_)
skipComments(p) == IF curTokenIs(p, "COMMENT") THEN skipComments(nextToken(p)) ELSE p

parseStatementBody(p0) ==
    With(skipComments(p0), LAMBDA p :
        CASE p.curToken.Type = "IMPORT" -> Typed(parseImportStatement(p), "ImportStatement")
          [] p.curToken.Type = "PUBLIC" -> parsePublicStatement(p)
          [] p.curToken.Type = "FUNCTION" ->
                Typed(parseFunctionStatement(p, FALSE), "FunctionStatement")
          [] p.curToken.Type = "STRUCT" -> Typed(parseStructStatement(p, FALSE), "StructStatement")
          [] p.curToken.Type = "VAR" -> Typed(parseVarStatement(p), "VarStatement")
          [] p.curToken.Type = "CONST" -> Typed(parseConstStatement(p), "ConstStatement")
          [] p.curToken.Type = "RETURN" -> Typed(parseReturnStatement(p), "ReturnStatement")
          [] p.curToken.Type = "IF" -> Typed(parseIfStatement(p), "IfStatement")
          [] p.curToken.Type = "FOR" -> parseForStatement(p)
          [] p.curToken.Type = "WHILE" -> Typed(parseWhileStatement(p), "WhileStatement")
          [] p.curToken.Type = "FREE" -> Typed(parseFreeStatement(p), "FreeStatement")
          [] p.curToken.Type = "DEFER" -> Typed(parseDeferStatement(p), "DeferStatement")
          [] p.curToken.Type = "BREAK" -> Typed(parseBreakStatement(p), "BreakStatement")
          [] p.curToken.Type = "CONTINUE" -> Typed(parseContinueStatement(p), "ContinueStatement")
          [] p.curToken.Type = "ENUM" -> Typed(parseEnumStatement(p, FALSE), "EnumStatement")
          [] p.curToken.Type = "DELETE" -> Typed(parseDeleteStatement(p), "DeleteStatement")
          [] p.curToken.Type = "IDENT" /\ peekTokenIs(p, "WALRUS") ->
                Typed(parseInferStatement(p), "InferStatement")
          [] OTHER -> Typed(parseExpressionStatement(p), "ExpressionStatement"))

\* the function a name stands for
Call(fn, p, args) ==
    CASE fn = "nextToken" -> nextTokenBody(p)
      [] fn = "parseTypeAnnotation" -> parseTypeAnnotationBody(p)
      [] fn = "parseExpression" -> parseExpressionBody(p, args[1])
      [] fn = "parseStatement" -> parseStatementBody(p)
      [] fn = "parseBlockStatement" -> parseBlockStatementBody(p)

(***************************************************************************)
(* pkg/ast: the String methods.  String(node) is node.String(), the method *)
(* chosen by the node's type.  A nil child that the method would           *)
(* dereference has no String.                                              *)
(***************************************************************************)
\* string(rune(n)) for the n that Chr has a character for
Rune(n) == Chr(n)

RECURSIVE String(_)
RECURSIVE Strings(_)
\* the String() of each node of a list
Strings(nodes) ==
    IF Len(nodes) = 0 THEN <<>> ELSE <<String(nodes[1])>> \o Strings(Tail(nodes))

String(node) ==
    With(node.kind, LAMBDA kind :
    CASE kind = "Identifier" -> node.Value
      [] kind \in {"IntegerLiteral", "FloatLiteral"} -> node.Token
      [] kind = "StringLiteral" -> "\"" \o node.Value \o "\""
      [] kind = "CharLiteral" -> "'" \o node.Value \o "'"
      [] kind = "BooleanLiteral" -> IF node.Value THEN "true" ELSE "false"
      [] kind = "NullLiteral" -> "null"
      [] kind = "TypeAnnotation" ->
            (IF node.IsPtr THEN "*" ELSE "")
                \o (IF node.ArrayLen = -1 THEN "[]"
                    ELSE IF node.ArrayLen > 0 THEN "[" \o Rune(node.ArrayLen) \o "]"
                    ELSE "")
                \o node.Name
      [] kind = "VarStatement" ->
            "var " \o String(node.Name)
                \o (IF node.Type # Nil THEN " " \o String(node.Type) ELSE "")
                \o (IF node.Value # Nil THEN " = " \o String(node.Value) ELSE "")
                \o ";"
      [] kind = "ConstStatement" ->
            "const " \o String(node.Name) \o " := " \o String(node.Value) \o ";"
      [] kind = "InferStatement" -> String(node.Name) \o " := " \o String(node.Value) \o ";"
      [] kind = "ReturnStatement" ->
            "return" \o (IF node.Value # Nil THEN " " \o String(node.Value) ELSE "") \o ";"
      [] kind = "ExpressionStatement" ->
            IF node.Expression # Nil THEN String(node.Expression) \o ";" ELSE ""
      [] kind = "BlockStatement" ->
            "{\n" \o Join([i \in 1..Len(node.Statements) |->
                              "  " \o String(node.Statements[i]) \o "\n"], "") \o "}"
      [] kind = "FunctionStatement" ->
            (IF node.Public THEN "public " ELSE "") \o "function "
                \o (IF node.Receiver # Nil
                    THEN "(" \o String(node.Receiver.Name) \o " "
                             \o String(node.Receiver.Type) \o ") "
                    ELSE "")
                \o String(node.Name) \o "("
                \o Join([i \in 1..Len(node.Parameters) |->
                            String(node.Parameters[i].Name) \o " "
                                \o String(node.Parameters[i].Type)], ", ")
                \o ")"
                \o (IF node.ReturnType # Nil THEN " " \o String(node.ReturnType) ELSE "")
                \o " " \o String(node.Body)
      [] kind = "StructStatement" ->
            (IF node.Public THEN "public " ELSE "") \o "struct " \o String(node.Name)
                \o " {\n"
                \o Join([i \in 1..Len(node.Fields) |->
                            (IF node.Fields[i].Public THEN "  public " ELSE "  ")
                                \o String(node.Fields[i].Name) \o " "
                                \o String(node.Fields[i].Type) \o ";\n"], "")
                \o "}"
      [] kind = "IfStatement" ->
            "if " \o String(node.Condition) \o " " \o String(node.Consequence)
                \o (IF node.Alternative # Nil THEN " else " \o String(node.Alternative)
                    ELSE "")
      [] kind = "ForStatement" ->
            "for " \o (IF node.Init # Nil THEN String(node.Init) \o " " ELSE "")
                \o (IF node.Condition # Nil THEN String(node.Condition) ELSE "")
                \o "; "
                \o (IF node.Post # Nil THEN String(node.Post) ELSE "")
                \o " " \o String(node.Body)
      [] kind = "WhileStatement" ->
            "while " \o String(node.Condition) \o " " \o String(node.Body)
      [] kind = "PrefixExpression" -> "(" \o node.Operator \o String(node.Right) \o ")"
      [] kind = "InfixExpression" ->
            "(" \o String(node.Left) \o " " \o node.Operator \o " " \o String(node.Right)
                \o ")"
      [] kind = "PostfixExpression" -> "(" \o String(node.Left) \o node.Operator \o ")"
      [] kind = "CallExpression" ->
            String(node.Function) \o "(" \o Join(Strings(node.Arguments), ", ") \o ")"
      [] kind = "IndexExpression" ->
            "(" \o String(node.Left) \o "[" \o String(node.Index) \o "])"
      [] kind = "MemberExpression" ->
            "(" \o String(node.Object) \o "." \o String(node.Member) \o ")"
      [] kind = "AssignExpression" ->
            "(" \o String(node.Left) \o " " \o node.Operator \o " " \o String(node.Value)
                \o ")"
      [] kind = "CastExpression" ->
            "((" \o String(node.TargetType) \o ")" \o String(node.Value) \o ")"
      [] kind = "AllocExpression" -> "alloc(" \o String(node.Type) \o ")"
      [] kind = "FreeStatement" -> "free(" \o String(node.Value) \o ");"
      [] kind = "DeferStatement" -> "defer " \o String(node.Statement)
      [] kind = "ArrayLiteral" ->
            (IF node.Type # Nil THEN String(node.Type) ELSE "")
                \o "{" \o Join(Strings(node.Elements), ", ") \o "}")

\* Program.String()
ProgramString(stmts) == Join(Strings(stmts), "")

(***************************************************************************)
(* The parser at work: lexer.New and parser.New on a source text, then     *)
(* ParseProgram, one round of its loop at a time.                          *)
(***************************************************************************)
\* no Lexer yet
NoLexer == [input |-> <<>>, pos |-> 0, readPos |-> 0, ch |-> 0, line |-> 0, column |-> 0]

\* no Parser yet
NoParser ==
    [l |-> NoLexer, errors |-> <<>>, curToken |-> ZeroToken, peekToken |-> ZeroToken,
     panic |-> FALSE, n |-> 0, stuck |-> FALSE, silent |-> FALSE, illegal |-> FALSE]

\* the lexemes the short sources are made of, and that take a token's place
\* in a longer one
Lexemes ==
    <<"x", "1", ":=", "=", "[", "]", "(", ")", "{", "}", ";", ",", "+", "*", ".",
      "function", "struct", "defer", "return", "int", "for", "if", "public", "enum",
      "range", "\"s\"", "// c\n">>

\* sources that use every loop of the parser
Templates ==
    <<  <<"function", "f", "(", ")", "int", "{", "defer", "return", "1", ";", "}">>,
        <<"x", ":=", "[", "1", "]", ";", "y", ":=", "[", "]", "int", "{", "1", ",", "2",
          "}", ";">>,
        <<"struct", "S", "{", "public", "a", "int", ";", "b", "*S", ";", "}",
          "function", "(", "s", "*S", ")", "m", "(", "a", "int", ",", "b", "int", ")",
          "{", "s", ".", "a", "=", "b", ";", "}",
          "f", "(", "a", ",", "b", "+", "1", "*", "2", ")", ";">>,
        <<"enum", "E", "{", "A", "=", "1", ",", "B", "}",
          "for", "i", ":=", "0", ";", "i", "<", "2", ";", "i", "++", "{", "break", ";",
          "}", "if", "i", "{", "free", "(", "x", ")", ";", "}", "else", "{", "x", "++",
          ";", "}">>,
        <<"for", "i", ",", "v", ":=", "range", "m", "{", "delete", "(", "m", ",", "i",
          ")", ";", "}", "while", "true", "{", "var", "z", "int", "=", "len", "(",
          "m", ")", ";", "}", "import", "\"io\"", ";">>,
        <<"const", "k", ":=", "map", "[", "string", "]", "int", "{", "\"a\"", ":",
          "1", "}", ";", "p", ":=", "make", "(", "[", "]", "int", ",", "2", ",", "4",
          ")", ";", "q", ":=", "(", "int", ")", "alloc", "(", "S", ")", ";">>  >>

\* the words of a source, separated by blanks
RECURSIVE Unwords(_)
Unwords(words) ==
    IF Len(words) = 0 THEN ""
    ELSE IF Len(words) = 1 THEN words[1]
    ELSE words[1] \o " " \o Unwords(Tail(words))

ShortSources ==
    {Unwords([i \in DOMAIN choice |-> Lexemes[choice[i]]]) :
        choice \in UNION {[1..n -> 1..Len(Lexemes)] : n \in 0..MaxTokens}}

\* a source with one of its first MaxVaried words replaced by a lexeme
Varied(words) ==
    {Unwords([words EXCEPT ![i] = Lexemes[j]]) :
        i \in {k \in 1..Len(words) : k <= MaxVaried}, j \in 1..Len(Lexemes)}

\* the templates, each as it is and with one word replaced
VariedSources ==
    UNION {{Unwords(Templates[t])} \cup Varied(Templates[t]) : t \in 1..Len(Templates)}

ParseInputs == ShortSources \cup VariedSources

\* the binary operators, and the sources "a op1 b op2 c" of two of them
BinaryOperators == {"||", "&&", "==", "!=", "<", ">", "<=", ">=", "+", "-", "*", "/", "%"}

PrecedenceInputs ==
    {Unwords(<<"a", op1, "b", op2, "c">>) : op1 \in BinaryOperators, op2 \in BinaryOperators}
        \cup {"a + b * c + d"}

\* l := lexer.New(source); p := parser.New(l)
ParseNew ==
    /\ ppc = "new"
    /\ parser' = NewParser(New(Bytes(srcText)))
    /\ ppc' = IF parser'.panic THEN "panicked" ELSE "loop"
    /\ UNCHANGED <<srcText, parsed, printed, genVars, lexVars, compileVars>>

\* one round of "for !p.curTokenIs(lexer.EOF)" in ParseProgram
ParseTopStatement ==
    /\ ppc = "loop"
    /\ ~curTokenIs(parser, "EOF")
    /\ \E round \in {statementRound(parser, parsed)} :
           /\ parser' = round.p
           /\ parsed' = round.list
           /\ ppc' = IF round.p.panic THEN "panicked"
                     ELSE IF round.p.stuck THEN "stuck" ELSE "loop"
    /\ UNCHANGED <<srcText, printed, genVars, lexVars, compileVars>>

\* "return program"
ParseReturn ==
    /\ ppc = "loop"
    /\ curTokenIs(parser, "EOF")
    /\ ppc' = "done"
    /\ UNCHANGED <<srcText, parser, parsed, printed, genVars, lexVars, compileVars>>

\* comments of the three forms, alone and one after another, ended by a new
\* line, by the end of the input, or not ended
CommentTexts ==
    {"// c\n", "# c\n", "/* c */", "/**/", "/* a\nb */", "// a\n# b\n",
     "/* a */ /* b */ // c\n", "#\n#\n/* */", "// c", "# c", "/* c"}

CommentedWords == <<"x", ":=", "1", ";">>

\* the words with the comment after the first k of them
CommentSource(k, comment) ==
    Unwords(SubSeq(CommentedWords, 1, k)) \o " " \o comment \o " "
        \o Unwords(SubSeq(CommentedWords, k + 1, Len(CommentedWords)))

CommentInputs ==
    {CommentSource(k, comment) : k \in 0..Len(CommentedWords), comment \in CommentTexts}

\* one call of p.nextToken() on the parser New returned
AdvanceToken ==
    /\ ppc = "loop"
    /\ ~curTokenIs(parser, "EOF")
    /\ parser' = nextToken(parser)
    /\ ppc' = IF parser'.panic THEN "panicked" ELSE "loop"
    /\ UNCHANGED <<srcText, parsed, printed, genVars, lexVars, compileVars>>

TokenNext ==
    \/ ParseNew
    \/ AdvanceToken
    \/ ParseReturn

\* declarations and statements of each kind
Declarations ==
    <<  <<"var", "x", "int", "=", "1", ";">>,
        <<"var", "m", "map", "[", "string", "]", "int", ";">>,
        <<"const", "k", ":=", "a", "[", "0", "]", ";">>,
        <<"x", ":=", "f", "(", "a", ",", "-", "b", ")", ";">>,
        <<"struct", "S", "{", "public", "a", "int", ";", "b", "*S", "}">>,
        <<"enum", "E", "{", "A", "=", "1", ",", "B", "}">>,
        <<"function", "f", "(", "a", "int", ",", "b", "[", "]", "int", ")", "int", "{",
          "return", "a", "+", "1", ";", "}">>,
        <<"public", "function", "(", "s", "*S", ")", "m", "(", ")", "{", "s", ".", "a",
          "=", "1", ";", "}">>,
        <<"for", "i", ":=", "0", ";", "i", "<", "2", ";", "i", "++", "{", "}">>,
        <<"for", "i", ",", "v", ":=", "range", "m", "{", "}">>,
        <<"if", "a", "{", "free", "(", "p", ")", ";", "}", "else", "{", "}">>,
        <<"while", "a", "{", "delete", "(", "m", ",", "k", ")", ";", "}">>,
        <<"p", ":=", "(", "int", ")", "alloc", "(", "S", ")", ";">>,
        <<"q", ":=", "make", "(", "[", "]", "int", ",", "2", ")", ";">>  >>

\* the declarations with one word replaced by a byte no token starts with
IllegalInputs ==
    UNION {{Unwords([Declarations[t] EXCEPT ![i] = "@"]) : i \in 1..Len(Declarations[t])} :
              t \in 1..Len(Declarations)}
        \cup {"@", "x := 1 ; @"}

\* the parts of a classic for statement: the words of each and the node it is
\* kept as, an absent part being no words and a nil
ForInits ==
    {[words |-> <<>>, node |-> Nil],
     [words |-> <<"i", ":=", "0">>, node |-> InferStatement(Identifier("i"), IntegerLiteral(0))],
     [words |-> <<"var", "i", "int", "=", "0">>,
      node |-> VarStatement(Identifier("i"), TypeAnnotation("int", FALSE, 0), IntegerLiteral(0))],
     [words |-> <<"i", "=", "0">>,
      node |-> ExpressionStatement(AssignExpression(Identifier("i"), "=", IntegerLiteral(0)))]}

ForConditions ==
    {[words |-> <<>>, node |-> Nil],
     [words |-> <<"i", "<", "n">>, node |-> InfixExpression(Identifier("i"), "<", Identifier("n"))],
     [words |-> <<"ok">>, node |-> Identifier("ok")]}

ForPosts ==
    {[words |-> <<>>, node |-> Nil],
     [words |-> <<"i", "++">>,
      node |-> ExpressionStatement(PostfixExpression(Identifier("i"), "++"))],
     [words |-> <<"i", "=", "i", "+", "1">>,
      node |-> ExpressionStatement(AssignExpression(Identifier("i"), "=",
                   InfixExpression(Identifier("i"), "+", IntegerLiteral(1))))]}

\* for init; condition; post { }
ForSource(init, condition, post) ==
    Unwords(<<"for">> \o init.words \o <<";">> \o condition.words \o <<";">>
            \o post.words \o <<"{", "}">>)

ForInputs ==
    {ForSource(init, condition, post) :
        init \in ForInits, condition \in ForConditions, post \in ForPosts}

\* the statements that may end in ";", without it
Terminated ==
    {<<"var", "x", "int", "=", "1">>, <<"var", "y", "int">>, <<"const", "k", ":=", "2">>,
     <<"x", ":=", "a", "+", "1">>, <<"return", "a">>, <<"return">>, <<"break">>,
     <<"continue">>, <<"free", "(", "p", ")">>, <<"delete", "(", "m", ",", "k", ")">>,
     <<"import", "\"io\"">>, <<"f", "(", "a", ")">>}

\* what follows such a statement: the "}" that ends the block, or a statement
\* that begins with a keyword
Followers ==
    {<<"}">>, <<"var", "z", "int", ";", "}">>, <<"return", "1", ";", "}">>,
     <<"if", "a", "{", "}", "}">>, <<"while", "a", "{", "}", "}">>,
     <<"for", "i", ":=", "0", ";", "i", "<", "n", ";", "i", "++", "{", "}", "}">>, <<"free", "(", "q", ")", ";", "}">>,
     <<"defer", "f", "(", ")", ";", "}">>, <<"break", ";", "}">>,
     <<"const", "c", ":=", "1", ";", "}">>}

\* the statement in a function body, with the separator sep after it
InBody(stmt, sep, follower) ==
    Unwords(<<"function", "g", "(", ")", "{">> \o stmt \o sep \o follower)

SemicolonInputs == {InBody(stmt, <<>>, follower) : stmt \in Terminated, follower \in Followers}

\* type annotations: scalar, pointer, fixed array, slice, map, and a pointer
\* before an array, a slice and a map
TypeWords ==
    {<<"int">>, <<"*", "int">>, <<"[", "5", "]", "int">>, <<"[", "]", "int">>,
     <<"map", "[", "string", "]", "int">>, <<"*", "[", "5", "]", "int">>,
     <<"*", "[", "]", "int">>, <<"*", "map", "[", "string", "]", "int">>,
     <<"map", "[", "string", "]", "*", "int">>,
     <<"map", "[", "string", "]", "[", "2", "]", "int">>,
     <<"map", "[", "*", "map", "[", "int", "]", "int", "]", "int">>}

\* the places of the grammar a type annotation is parsed at
TypePlaces ==
    {[before |-> <<"var", "x">>, after |-> <<";">>],
     [before |-> <<"function", "f", "(", "a">>, after |-> <<")", "{", "}">>],
     [before |-> <<"function", "f", "(", ")">>, after |-> <<"{", "}">>],
     [before |-> <<"struct", "S", "{", "b">>, after |-> <<";", "}">>]}

TypeInputs ==
    {Unwords(place.before \o type \o place.after) : place \in TypePlaces, type \in TypeWords}

\* for first, value := range iterable { body }
RangeFirsts == {"_", "i"}

RangeValues == {"v", "x", "item"}

RangeIterables == {<<"arr">>, <<"f", "(", ")">>, <<"s", ".", "items">>}

RangeBodies == {<<>>, <<"n", "=", "n", "+", "1", ";">>, <<"break", ";">>}

RangeSource(first, value, iterable, body) ==
    Unwords(<<"for", first, ",", value, ":=", "range">> \o iterable \o <<"{">> \o body
            \o <<"}">>)

RangeInputs ==
    {RangeSource(first, value, iterable, body) :
        first \in RangeFirsts, value \in RangeValues, iterable \in RangeIterables,
        body \in RangeBodies}

\* statements whose production fails: an expectPeek mismatch in each kind of
\* statement that has one, and a function without a name
FailingStatements ==
    {<<"var", ";">>, <<"const", "k", "=", "1", ";">>,
     <<"import", "x", ";">>, <<"struct", "{", "}">>, <<"enum", "{", "}">>,
     <<"free", "x", ";">>, <<"delete", "(", "m", ")", ";">>, <<"while", "a", ";">>,
     <<"if", "a", ";">>, <<"function", "1", "(", ")", "{", "}">>,
     <<"function", "f", "{", "}">>, <<"public", "struct", "{", "}">>}

\* well-formed statements and the nodes they parse to
FollowingStatements ==
    {[words |-> <<"y", ":=", "1", ";">>,
      node |-> InferStatement(Identifier("y"), IntegerLiteral(1))],
     [words |-> <<"return", "2", ";">>, node |-> ReturnStatement(IntegerLiteral(2))],
     [words |-> <<"free", "(", "q", ")", ";">>, node |-> FreeStatement(Identifier("q"))]}

\* the failing statement and the well-formed one after it, at top level
AtTopLevel(failing, following) == Unwords(failing \o following.words)

\* the same two statements in the body of a function
InFunction(failing, following) ==
    Unwords(<<"function", "g", "(", ")", "{">> \o failing \o following.words \o <<"}">>)

RecoverInputs ==
    {AtTopLevel(failing, following) :
        failing \in FailingStatements, following \in FollowingStatements}
    \cup {InFunction(failing, following) :
            failing \in FailingStatements, following \in FollowingStatements}

\* sources of every statement and expression form that has a String method
RoundTripInputs ==
    {"x = - a ;", "a + ! b ;", "p := & x ;", "y := * p ;", "y = * p + 1 ;", "f ( a , b ) ;",
     "a [ 0 ] ++ ;", "s . m ( 1 ) . n ;", "q := ( int ) x ;", "n := alloc ( S ) ;",
     "var v int = 1 ;", "var w [] int ;", "var a [65] int ;", "var r * S ;",
     "const k := 2 * 3 - 1 ;", "return ;", "return a == b && c ;",
     "if a < b { return 1 ; } else { x += 2 ; }",
     "while true { free ( p ) ; }", "defer free ( p ) ;",
     "for i := 0 ; i < 2 ; i ++ { }",
     "function ( s * S ) m ( a int , b string ) int { return a ; }",
     "public function main ( ) { print ( \"m\" ) ; }",
     "public struct S { public a int ; b * S ; }",
     "z := [ ] int { 1 , 2 } ;", "c := 'a' ;", "t := \"s\" ;", "u := 1.5 ;", "n := null ;",
     "e := 007 ;", "a || b ;", "x"}

\* ParseProgram as a whole: the loop "for !p.curTokenIs(lexer.EOF)" from p on
RECURSIVE programLoop(_, _)
programLoop(p, stmts) ==
    IF p.panic \/ curTokenIs(p, "EOF") THEN ResList(p, stmts)
    ELSE With(statementRound(p, stmts), LAMBDA round :
             IF round.p.stuck THEN round ELSE programLoop(round.p, round.list))

\* l := lexer.New(text); p := parser.New(l); program := p.ParseProgram()
ParseProgram(text) == programLoop(NewParser(New(Bytes(text))), <<>>)

\* "text := program.String()" for a program parsed without diagnostics, then a
\* fresh lexer and parser on text
PrintAndParse ==
    /\ ppc = "done"
    /\ Len(parser.errors) = 0
    /\ printed = <<>>
    /\ printed' = <<parsed>>
    /\ srcText' = ProgramString(parsed)
    /\ parser' = NoParser
    /\ ppc' = "new"
    /\ parsed' = <<>>
    /\ UNCHANGED <<genVars, lexVars, compileVars>>

(***************************************************************************)
(* compile (cmd/hlc): the parser's actions above, then the test of the     *)
(* diagnostics, then Generate's actions.                                   *)
(***************************************************************************)
NoResult == [code |-> <<>>, errors |-> <<>>]

CompileInputs == VariedSources

\* sources with no, one, two and three structs, and one with a diagnostic
RecompileInputs ==
    {"function main ( ) { print ( \"m\" ) ; }",
     "struct A { x int ; } function main ( ) { }",
     "struct A { x int ; } struct B { a *A ; } function main ( ) { }",
     "struct B { a *A ; } struct A { x int ; }",
     "struct A { } struct B { } struct C { } function ( a *A ) get ( ) int { return 1 ; }",
     "struct A { x int ; } struct { }"}

\* sources with and without a map: a literal, a map type, delete, len and free
\* on a map; the last one has a diagnostic
MapInputs ==
    {"function main ( ) { m := map [ string ] int { } ; }",
     "function main ( ) { m := map [ string ] int { \"a\" : 1 } ; free ( m ) ; }",
     "var m map [ string ] int ;",
     "function f ( m map [ string ] int ) int { return len ( m ) ; }",
     "function f ( m map [ int ] int ) { delete ( m , 1 ) ; }",
     "struct S { m map [ string ] int ; }",
     "struct S { x int ; } struct T { s *S ; }",
     "function main ( ) { print ( \"m\" ) ; }",
     "function f ( a [] int ) int { return len ( a ) ; }",
     "function main ( ) { p := alloc ( S ) ; free ( p ) ; }",
     "x := 1 ;",
     "",
     "var m map [ string ] int ; struct { }"}

\* sources that parse without diagnostics, with scalar, pointer, slice and
\* fixed-array types in a variable, a parameter and a struct field; the last
\* one has a diagnostic
ValidCInputs ==
    {"function main ( ) { print ( \"m\" ) ; }",
     "function f ( a int , b int ) int { var s int = a + b ; return s ; }",
     "struct S { x int ; next *S ; } function ( s *S ) get ( ) int { return s . x ; }",
     "function f ( n int ) int { if n < 1 { return 0 ; } return n ; }",
     "function f ( n int ) { while n > 1 { n -- ; } }",
     "function f ( ) { p := alloc ( S ) ; defer free ( p ) ; }",
     "function f ( a [] int ) int { return a [ 0 ] ; }",
     "function f ( ) { var a [5] int ; }",
     "function f ( a [3] int ) int { return a [ 0 ] ; }",
     "struct S { b [2] int ; }",
     "function f ( ) { var x float = 1.5 ; var c char = 'c' ; var t bool = true ; }",
     "function f ( ) string { return \"s\" ; }",
     "function f ( ) { var a [5] ; struct }"}

\* "if len(p.Errors()) > 0 { return "", p.Errors() }"
CompileReturnErrors ==
    /\ cpc = "parse"
    /\ ppc = "done"
    /\ Len(parser.errors) > 0
    /\ compiled' = [code |-> <<>>, errors |-> parser.errors]
    /\ cpc' = "done"
    /\ UNCHANGED <<genVars, lexVars, parseVars, previous>>

\* "g := codegen.New(); cCode := g.Generate(program)": the call
CompileCallGenerate ==
    /\ cpc = "parse"
    /\ ppc = "done"
    /\ Len(parser.errors) = 0
    /\ program' = parsed
    /\ g' = NewGenerator
    /\ gpc' = "start"
    /\ cpc' = "generate"
    /\ UNCHANGED <<gidx, sections, result, compiled, previous, lexVars, parseVars>>

\* "return cCode, nil"
CompileReturn ==
    /\ cpc = "generate"
    /\ gpc = "done"
    /\ compiled' = [code |-> result, errors |-> <<>>]
    /\ cpc' = "done"
    /\ UNCHANGED <<genVars, lexVars, parseVars, previous>>

\* compile is called again on the same source text: "l := lexer.New(source)"
\* with a fresh lexer, and later a fresh parser and generator
CompileAgain ==
    /\ cpc = "done"
    /\ Len(previous) < MaxCompiles - 1
    /\ previous' = Append(previous, compiled)
    /\ cpc' = "parse"
    /\ compiled' = NoResult
    /\ parser' = NoParser
    /\ ppc' = "new"
    /\ parsed' = <<>>
    /\ program' = <<>>
    /\ gpc' = "idle"
    /\ gidx' = 1
    /\ g' = NewGenerator
    /\ sections' = <<>>
    /\ result' = <<>>
    /\ UNCHANGED <<srcText, printed, lexVars>>

(***************************************************************************)
(* The lexer at work: lexer.New on an input, then calls of NextToken.     *)
(***************************************************************************)
\* the bytes the inputs are drawn from: NUL, newline, and the characters of
\* string and char literals, escapes, names, numbers, comments and operators
\* and a character no token starts with
LexAlphabet == {0, 10} \cup {Ord(SubSeq("\"'\\a1 @/*=.|", i, i)) : i \in 1..12}

LexInputs == UNION {[1..n -> LexAlphabet] : n \in 0..MaxInput}

LexNew ==
    /\ lpc = "new"
    /\ lexer' = New(source)
    /\ lpc' = "ready"
    /\ UNCHANGED <<source, lastTok, lexFirst, toks, genVars, parseVars, compileVars>>

LexNextToken ==
    /\ lpc = "ready"
    /\ Len(toks) < MaxCalls
    /\ LET r == NextToken(lexer)
       IN  /\ lexer' = r.l
           /\ lastTok' = r.tok
           /\ lexFirst' = skipWhitespace(lexer).ch
           /\ lpc' = IF r.panic THEN "panicked" ELSE "ready"
           /\ toks' = IF r.panic THEN toks ELSE Append(toks, r.tok.Type)
    /\ UNCHANGED <<source, genVars, parseVars, compileVars>>

(***************************************************************************)
(* Specifications.  Each runs one part of the compiler; the variables of   *)
(* the other parts stay at their idle values.                              *)
(***************************************************************************)
GenIdle ==
    /\ program = <<>>
    /\ gpc = "idle"
    /\ gidx = 1
    /\ g = NewGenerator
    /\ sections = <<>>
    /\ result = <<>>

LexIdle ==
    /\ source = <<>>
    /\ lexer = NoLexer
    /\ lpc = "idle"
    /\ lastTok = NoToken
    /\ lexFirst = 0
    /\ toks = <<>>

GenInit ==
    /\ Programs(program)
    /\ gpc = "start"
    /\ gidx = 1
    /\ g = NewGenerator
    /\ sections = <<>>
    /\ result = <<>>

GenNext ==
    \/ GenerateStart
    \/ GenerateStructForward
    \/ GenerateStructs
    \/ GenerateFunctionDecls
    \/ GenerateFunctions
    \/ GenerateReturn

LexInit ==
    /\ source \in LexInputs
    /\ lexer = NoLexer
    /\ lpc = "new"
    /\ lastTok = NoToken
    /\ lexFirst = 0
    /\ toks = <<>>

LexNext ==
    \/ LexNew
    \/ LexNextToken

\* Generate on the programs of Programs
ParseIdle ==
    /\ srcText = ""
    /\ parser = NoParser
    /\ ppc = "idle"
    /\ parsed = <<>>
    /\ printed = <<>>

CompileIdle ==
    /\ cpc = "idle"
    /\ compiled = NoResult
    /\ previous = <<>>

ParseInit ==
    /\ srcText \in ParseInputs
    /\ parser = NoParser
    /\ ppc = "new"
    /\ parsed = <<>>
    /\ printed = <<>>

ParseNext ==
    \/ ParseNew
    \/ ParseTopStatement
    \/ ParseReturn

CompileInit ==
    /\ srcText \in CompileInputs
    /\ parser = NoParser
    /\ ppc = "new"
    /\ parsed = <<>>
    /\ printed = <<>>
    /\ cpc = "parse"
    /\ compiled = NoResult
    /\ previous = <<>>

CompileNext ==
    \/ ParseNext
    \/ CompileReturnErrors
    \/ CompileCallGenerate
    \/ GenNext
    \/ CompileReturn

Init == GenInit /\ LexIdle /\ ParseIdle /\ CompileIdle

Next == GenNext

Spec == Init /\ [][Next]_vars

\* the parser alone
ParseSpecInit == ParseInit /\ GenIdle /\ LexIdle /\ CompileIdle

ParseSpec == ParseSpecInit /\ [][ParseNext]_vars

\* compile: the parser, then the emitter
CompileSpecInit == CompileInit /\ GenIdle /\ LexIdle

CompileSpec == CompileSpecInit /\ [][CompileNext]_vars

\* the lexer on the inputs of LexInputs
LexSpecInit == LexInit /\ GenIdle /\ ParseIdle /\ CompileIdle

LexSpec == LexSpecInit /\ [][LexNext]_vars

\* the parser on the sources of two binary operators
PrecedenceSpecInit ==
    /\ srcText \in PrecedenceInputs
    /\ parser = NoParser
    /\ ppc = "new"
    /\ parsed = <<>>
    /\ printed = <<>>
    /\ GenIdle /\ LexIdle /\ CompileIdle

PrecedenceSpec == PrecedenceSpecInit /\ [][ParseNext]_vars

\* Generate on the programs of MethodPrograms
MethodSpecInit ==
    /\ MethodPrograms(program)
    /\ gpc = "start"
    /\ gidx = 1
    /\ g = NewGenerator
    /\ sections = <<>>
    /\ result = <<>>
    /\ LexIdle /\ ParseIdle /\ CompileIdle

MethodSpec == MethodSpecInit /\ [][GenNext]_vars

\* Generate on the programs of ResetPrograms
ResetSpecInit ==
    /\ ResetPrograms(program)
    /\ gpc = "start"
    /\ gidx = 1
    /\ g = NewGenerator
    /\ sections = <<>>
    /\ result = <<>>
    /\ LexIdle /\ ParseIdle /\ CompileIdle

ResetSpec == ResetSpecInit /\ [][GenNext]_vars

\* Generate on a function that declares one name
DeclSpecInit ==
    /\ DeclPrograms(program)
    /\ gpc = "start"
    /\ gidx = 1
    /\ g = NewGenerator
    /\ sections = <<>>
    /\ result = <<>>
    /\ LexIdle /\ ParseIdle /\ CompileIdle

DeclSpec == DeclSpecInit /\ [][GenNext]_vars

\* Generate on a function that takes the address of a variable
AddressSpecInit ==
    /\ AddressPrograms(program)
    /\ gpc = "start"
    /\ gidx = 1
    /\ g = NewGenerator
    /\ sections = <<>>
    /\ result = <<>>
    /\ LexIdle /\ ParseIdle /\ CompileIdle

AddressSpec == AddressSpecInit /\ [][GenNext]_vars

\* New and then nextToken up to EOF, on sources with comments
TokenSpecInit ==
    /\ srcText \in CommentInputs
    /\ parser = NoParser
    /\ ppc = "new"
    /\ parsed = <<>>
    /\ printed = <<>>
    /\ GenIdle /\ LexIdle /\ CompileIdle

TokenSpec == TokenSpecInit /\ [][TokenNext]_vars

\* Generate on programs with top-level statements of every kind
GlobalSpecInit ==
    /\ GlobalPrograms(program)
    /\ gpc = "start"
    /\ gidx = 1
    /\ g = NewGenerator
    /\ sections = <<>>
    /\ result = <<>>
    /\ LexIdle /\ ParseIdle /\ CompileIdle

GlobalSpec == GlobalSpecInit /\ [][GenNext]_vars

\* compile, called MaxCompiles times on one source text
RecompileSpecInit ==
    /\ srcText \in RecompileInputs
    /\ parser = NoParser
    /\ ppc = "new"
    /\ parsed = <<>>
    /\ printed = <<>>
    /\ cpc = "parse"
    /\ compiled = NoResult
    /\ previous = <<>>
    /\ GenIdle /\ LexIdle

RecompileNext == CompileNext \/ CompileAgain

RecompileSpec == RecompileSpecInit /\ [][RecompileNext]_vars

\* the parser on sources with an unrecognized byte
IllegalSpecInit ==
    /\ srcText \in IllegalInputs
    /\ parser = NoParser
    /\ ppc = "new"
    /\ parsed = <<>>
    /\ printed = <<>>
    /\ GenIdle /\ LexIdle /\ CompileIdle

IllegalSpec == IllegalSpecInit /\ [][ParseNext]_vars

\* compile on sources with and without a map
MapSpecInit ==
    /\ srcText \in MapInputs
    /\ parser = NoParser
    /\ ppc = "new"
    /\ parsed = <<>>
    /\ printed = <<>>
    /\ cpc = "parse"
    /\ compiled = NoResult
    /\ previous = <<>>
    /\ GenIdle /\ LexIdle

MapSpec == MapSpecInit /\ [][CompileNext]_vars

\* compile on sources with every shape of type
ValidCSpecInit ==
    /\ srcText \in ValidCInputs
    /\ parser = NoParser
    /\ ppc = "new"
    /\ parsed = <<>>
    /\ printed = <<>>
    /\ cpc = "parse"
    /\ compiled = NoResult
    /\ previous = <<>>
    /\ GenIdle /\ LexIdle

ValidCSpec == ValidCSpecInit /\ [][CompileNext]_vars

\* the parser on classic for statements
ForSpecInit ==
    /\ srcText \in ForInputs
    /\ parser = NoParser
    /\ ppc = "new"
    /\ parsed = <<>>
    /\ printed = <<>>
    /\ GenIdle /\ LexIdle /\ CompileIdle

ForSpec == ForSpecInit /\ [][ParseNext]_vars

\* the parser on statements without their ";"
SemicolonSpecInit ==
    /\ srcText \in SemicolonInputs
    /\ parser = NoParser
    /\ ppc = "new"
    /\ parsed = <<>>
    /\ printed = <<>>
    /\ GenIdle /\ LexIdle /\ CompileIdle

SemicolonSpec == SemicolonSpecInit /\ [][ParseNext]_vars

\* the parser on a type annotation at each place of the grammar
TypeSpecInit ==
    /\ srcText \in TypeInputs
    /\ parser = NoParser
    /\ ppc = "new"
    /\ parsed = <<>>
    /\ printed = <<>>
    /\ GenIdle /\ LexIdle /\ CompileIdle

TypeSpec == TypeSpecInit /\ [][ParseNext]_vars

\* the parser on for-range statements with two variables
RangeSpecInit ==
    /\ srcText \in RangeInputs
    /\ parser = NoParser
    /\ ppc = "new"
    /\ parsed = <<>>
    /\ printed = <<>>
    /\ GenIdle /\ LexIdle /\ CompileIdle

RangeSpec == RangeSpecInit /\ [][ParseNext]_vars

\* the parser on a statement that fails followed by a well-formed one
RecoverSpecInit ==
    /\ srcText \in RecoverInputs
    /\ parser = NoParser
    /\ ppc = "new"
    /\ parsed = <<>>
    /\ printed = <<>>
    /\ GenIdle /\ LexIdle /\ CompileIdle

RecoverSpec == RecoverSpecInit /\ [][ParseNext]_vars

\* the parser on a source and then on the String() of what it returned
RoundTripSpecInit ==
    /\ srcText \in RoundTripInputs
    /\ parser = NoParser
    /\ ppc = "new"
    /\ parsed = <<>>
    /\ printed = <<>>
    /\ GenIdle /\ LexIdle /\ CompileIdle

RoundTripNext == ParseNext \/ PrintAndParse

RoundTripSpec == RoundTripSpecInit /\ [][RoundTripNext]_vars

(***************************************************************************)
(* Properties of the emitter (pkg/codegen).                                *)
(***************************************************************************)
\* the positions in h of the "emit" entries written by the emitDeferredStatements
\* call that the entry k (a "return" or a "fall") made itself
DirectEmits(h, k) ==
    SelectSeq([j \in 1..Len(h) |-> j],
              LAMBDA j : /\ j > h[k].h0
                         /\ j < k
                         /\ h[j].ev = "emit"
                         /\ h[j].depth = h[k].depth + 1)

\* entry k emitted the n statements that were on the stack, last registered
\* first, as the consecutive lines lo+1..hi
EmitsAreLIFO(h, k, lo, hi) ==
    With(DirectEmits(h, k), LAMBDA em :
        With(h[k].n, LAMBDA n :
        /\ Len(em) = n
        /\ \A m \in 1..n : h[em[m]].i = n - m + 1
        /\ \A m \in 1..n : h[em[m]].from = (IF m = 1 THEN lo ELSE h[em[m - 1]].to)
        /\ (IF n = 0 THEN lo ELSE h[em[n]].to) = hi))

\* the "emit" entry e wrote the statement that sits at its stack position; a
\* call or a free is one line of C
EmittedAsRegistered(gen, e) ==
    /\ e.i <= Len(gen.deferredStmts)
    /\ gen.deferredStmts[e.i].kind = e.stmt.kind
    /\ e.stmt.kind = "FreeStatement" =>
          /\ e.to = e.from + 1
          /\ gen.output[e.to] = Repeat("    ", e.ind) \o "free("
                                    \o generateExpression(gen, e.stmt.Value) \o ");"
    /\ e.stmt.kind = "ExpressionStatement" =>
          /\ e.to = e.from + 1
          /\ gen.output[e.to] = Repeat("    ", e.ind)
                                    \o generateExpression(gen, e.stmt.Expression) \o ";"

AllEmittedAsRegistered(gen, k) ==
    With(DirectEmits(gen.hist, k), LAMBDA em :
        \A m \in DOMAIN em : EmittedAsRegistered(gen, gen.hist[em[m]]))

C2_ReturnValueCapturedBeforeDeferred ==
    \A k \in DOMAIN g.hist :
        With(g.hist[k], LAMBDA e :
            With(Repeat("    ", e.ind), LAMBDA pad :
            (e.ev = "return" /\ e.n > 0 /\ e.stmt.Value # Nil) =>
                /\ e.to >= e.from + 2
                /\ g.output[e.from + 1] =
                        pad \o inferType(g, e.stmt.Value) \o " __ret_val = "
                            \o generateExpression(g, e.stmt.Value) \o ";"
                /\ EmitsAreLIFO(g.hist, k, e.from + 1, e.to - 1)
                /\ AllEmittedAsRegistered(g, k)
                /\ g.output[e.to] = pad \o "return __ret_val;"))

\* a "return e" met two deferred statements and the function was emitted to its end
C2_Witness ==
    /\ gpc = "done"
    /\ \E k \in DOMAIN g.hist :
          /\ g.hist[k].ev = "return"
          /\ g.hist[k].n = 2
          /\ g.hist[k].stmt.Value # Nil
          /\ g.hist[k].to = g.hist[k].from + 4

\* generateFunction has returned for at least one function of the program
FunctionEmitted ==
    /\ gpc \in {"functions", "functionDecls", "return", "done"}
    /\ \E i \in DOMAIN sections : sections[i].part = "function"

DeferEvents(h) == SelectSeq(h, LAMBDA e : e.ev = "defer")

\* C3 as stated: once generateFunction has finished, the deferred stack is empty.
C3_StackEmptyAfterFunction == FunctionEmitted => Len(g.deferredStmts) = 0

\* C3 as the code has it: the stack is emptied when the emission of a function
\* begins, not when it ends.  After generateFunction the stack holds exactly the
\* statements deferred in that function, and every statement a function emits
\* from the stack was deferred in that same function.
C3_StackHoldsOnlyOwnFunctionsDefers ==
    With(DeferEvents(g.hist), LAMBDA d :
        /\ \A j \in DOMAIN g.hist :
              g.hist[j].ev = "emit" =>
                  \E m \in 1..(j - 1) : g.hist[m].ev = "defer" /\ g.hist[m].i = g.hist[j].i
        /\ FunctionEmitted =>
              /\ Len(g.deferredStmts) = Len(d)
              /\ \A i \in DOMAIN d : d[i].i = i /\ d[i].stmt.kind = g.deferredStmts[i].kind)

\* two functions that defer have been emitted; the stack still holds the one
\* statement of the second
C3_Witness ==
    /\ gpc = "done"
    /\ Len(SelectSeq(sections, LAMBDA s : s.part = "function")) >= 2
    /\ \A i \in DOMAIN program :
          program[i].kind = "FunctionStatement" /\ program[i].Name.Value # "main"
    /\ Len(g.deferredStmts) = 1

\* every section tagged a comes before every section tagged b
Precedes(a, b) ==
    \A i \in DOMAIN sections, j \in DOMAIN sections :
        (sections[i].part = a /\ sections[j].part = b) => sections[i].to <= sections[j].from

\* the tags of sections tell the truth about the lines
SectionsAreWhatTheySay ==
    \A i \in DOMAIN sections :
        With(sections[i], LAMBDA sec :
            /\ sec.part = "structForward" =>
                  g.output[sec.to] = "typedef struct " \o sec.name \o " " \o sec.name \o ";"
            /\ sec.part = "struct" =>
                  /\ g.output[sec.from + 1] = "struct " \o sec.name \o " {"
                  /\ g.output[sec.to - 1] = "};"
            /\ sec.part = "function" =>
                  /\ HasSuffix(g.output[sec.from + 1], ") {")
                  /\ g.output[sec.to - 1] = "}")

\* C4: all struct forward declarations come before all struct bodies, all
\* struct bodies before all function bodies, and every function or method has a
\* forward declaration (its signature and ";") before every function body.
C4_ForwardDeclarationsBeforeBodies ==
    /\ SectionsAreWhatTheySay
    /\ Precedes("structForward", "struct")
    /\ Precedes("struct", "function")
    /\ Precedes("functionDecl", "function")
    /\ FunctionEmitted =>
          \A i \in DOMAIN program :
              program[i].kind = "FunctionStatement" =>
                  \E j \in DOMAIN sections :
                      /\ sections[j].part = "functionDecl"
                      /\ sections[j].to = sections[j].from + 1
                      /\ g.output[sections[j].to] = signature(program[i]) \o ";"
                      /\ \A m \in DOMAIN sections :
                            sections[m].part = "function" => sections[j].to <= sections[m].from

\* a program with a struct, a function and a method has been emitted
C4_Witness ==
    /\ gpc = "done"
    /\ \E i \in DOMAIN sections : sections[i].part = "struct"
    /\ \E i \in DOMAIN sections : sections[i].part = "function" /\ sections[i].name = "A_get"
    /\ \E i \in DOMAIN sections : sections[i].part = "function" /\ sections[i].name = "f"

NonBlank(lines) == SelectSeq(lines, LAMBDA l : l # "")

Prelude ==
    <<"#include <stdio.h>", "#include <stdlib.h>", "#include <string.h>",
      "#include <stdbool.h>", "typedef char* h_string;">>

\* C5: the text Generate returns begins with the four #include lines, and the
\* next line that is not blank is "typedef char* h_string;".
C5_OutputBeginsWithPrelude ==
    gpc = "done" =>
        /\ Len(result) >= 6
        /\ SubSeq(result, 1, 4) = SubSeq(Prelude, 1, 4)
        /\ SubSeq(NonBlank(result), 1, 5) = Prelude

\* Generate has returned the text of a program with declarations of its own
C5_Witness ==
    /\ gpc = "done"
    /\ Len(program) = 2
    /\ Len(result) > 20

\* C10: Generate does not run out of call stack: whatever statement a defer
\* holds, the mutual recursion of generateReturnStatement, emitDeferredStatements
\* and generateStatementDirect ends.
C10_GenerateNeverExhaustsTheStack == gpc # "aborted" /\ ~g.aborted

(***************************************************************************)
(* Properties of the lexer (pkg/lexer).                                    *)
(***************************************************************************)
\* the bytes some token or blank starts with: letters, digits, blanks, NUL (the
\* end of input) and the punctuation of the switch in NextToken
StartsToken(b) ==
    \/ b = 0
    \/ isLetter(b)
    \/ isDigit(b)
    \/ b \in {32, 9, 10, 13}
    \/ \E i \in 1..25 : Chr(b) = SubSeq("=+-*/#%!&|<>:,;.(){}[]\"'", i, i)

\* C7: no call of NextToken panics, whatever the input (also one that ends
\* inside a string or char literal), and a call that meets a byte no token
\* starts with returns an ILLEGAL token holding that byte.
C7_NextTokenNeverAborts ==
    /\ lpc # "panicked"
    /\ (lpc = "ready" /\ Len(toks) > 0 /\ ~StartsToken(lexFirst)) =>
          lastTok.Type = "ILLEGAL" /\ lastTok.Literal = Chr(lexFirst)

\* C8: once NextToken has returned EOF, every later call returns EOF.
C8_EOFForEverAfterEOF ==
    \A i \in DOMAIN toks, j \in DOMAIN toks :
        (i < j /\ toks[i] = "EOF") => toks[j] = "EOF"
(***************************************************************************)
(* The parser's properties.                                                *)
(***************************************************************************)
\* every round of every loop of the parser called nextToken at least once
ParseLoopsAdvance == ppc # "stuck" /\ ~parser.stuck

\* no call of the parser panicked
ParseRaisesNothing == ppc # "panicked" /\ ~parser.panic

\* every production that gave up (returned nil) appended a diagnostic
ParseRecordsEveryFailure == ~parser.silent

\* C9: on every source ParseProgram terminates and returns a Program: every
\* round of the top-level loop and of the nested loops advances the token
\* position, nothing is raised, and every failure is recorded as a diagnostic.
C9_ParseProgramAdvancesAndRecordsEveryFailure ==
    /\ ParseLoopsAdvance
    /\ ParseRaisesNothing
    /\ ParseRecordsEveryFailure

(***************************************************************************)
(* compile's properties.                                                   *)
(***************************************************************************)
\* Generate is called only after ParseProgram returned with no diagnostic
CompileGeneratesOnlyWithoutDiagnostics ==
    gpc # "idle" => ppc = "done" /\ Len(parser.errors) = 0

\* with a diagnostic recorded compile returns the diagnostics and no C text
CompileReturnsDiagnosticsAlone ==
    cpc = "done" /\ Len(parser.errors) > 0 =>
        compiled = [code |-> <<>>, errors |-> parser.errors] /\ gpc = "idle"

\* with none recorded what compile returns is Generate's text and no diagnostic
CompileReturnsGeneratedC ==
    cpc = "done" /\ Len(parser.errors) = 0 =>
        compiled = [code |-> result, errors |-> <<>>] /\ gpc = "done"

\* compile does not end in another way than by returning
CompileAlwaysReturns == ppc # "panicked" /\ gpc # "aborted"

\* C6: compile invokes the code generator only when the parser's diagnostic
\* list is empty: with a diagnostic it returns the diagnostics and no generated
\* C, with none it returns the generated C and an empty diagnostic list.
C6_CompileReturnsDiagnosticsOrGeneratedC ==
    /\ CompileGeneratesOnlyWithoutDiagnostics
    /\ CompileReturnsDiagnosticsAlone
    /\ CompileReturnsGeneratedC
    /\ CompileAlwaysReturns

(***************************************************************************)
(* Properties of the parser: the grouping of binary operators.             *)
(***************************************************************************)
\* the level the operator has in the order OR < AND < EQUALS < LESSGREATER <
\* SUM < PRODUCT
LevelOf(op) ==
    CASE op = "||" -> OR
      [] op = "&&" -> AND
      [] op \in {"==", "!="} -> EQUALS
      [] op \in {"<", ">", "<=", ">="} -> LESSGREATER
      [] op \in {"+", "-"} -> SUM
      [] op \in {"*", "/", "%"} -> PRODUCT

\* the tree of "a op1 b op2 c" grouped to the left, and to the right
GroupedLeft(op1, op2) ==
    InfixExpression(InfixExpression(Identifier("a"), op1, Identifier("b")), op2,
                    Identifier("c"))

GroupedRight(op1, op2) ==
    InfixExpression(Identifier("a"), op1,
                    InfixExpression(Identifier("b"), op2, Identifier("c")))

\* ParseProgram has returned one expression statement and no diagnostic
ParsedExpression(e) ==
    /\ Len(parser.errors) = 0
    /\ Len(parsed) = 1
    /\ parsed[1] = ExpressionStatement(e)

\* C11: "a op1 b op2 c" parses as ((a op1 b) op2 c) when the level of op1 is at
\* least the level of op2 and as (a op1 (b op2 c)) otherwise, for every two
\* binary operators; "a + b * c + d" parses as ((a + (b * c)) + d).
C11_BinaryOperatorsGroupByLevel ==
    ppc = "done" =>
        /\ \A op1 \in BinaryOperators, op2 \in BinaryOperators :
               srcText = Unwords(<<"a", op1, "b", op2, "c">>) =>
                   ParsedExpression(IF LevelOf(op1) >= LevelOf(op2)
                                    THEN GroupedLeft(op1, op2)
                                    ELSE GroupedRight(op1, op2))
        /\ srcText = "a + b * c + d" =>
               ParsedExpression(
                   InfixExpression(
                       InfixExpression(Identifier("a"), "+",
                           InfixExpression(Identifier("b"), "*", Identifier("c"))),
                       "+", Identifier("d")))

\* two operators of one level have been grouped to the left
C11_Witness ==
    /\ ppc = "done"
    /\ srcText = "a - b + c"
    /\ ParsedExpression(GroupedLeft("-", "+"))

\* a lower operator followed by a higher one has been grouped to the right
C11_WitnessRight ==
    /\ ppc = "done"
    /\ srcText = "a || b && c"
    /\ ParsedExpression(GroupedRight("||", "&&"))

(***************************************************************************)
(* Properties of the emitter: the signature of a method.                   *)
(***************************************************************************)
\* "<lowered return type> T_m(T* r, <declared parameters>)" of a method m with
\* receiver (r *T)
MethodSignature(f) ==
    typeToC(f.ReturnType) \o " " \o f.Receiver.Type.Name \o "_" \o f.Name.Value \o "("
        \o Join(<<f.Receiver.Type.Name \o "* " \o f.Receiver.Name.Value>>
                    \o [i \in 1..Len(f.Parameters) |->
                            typeToC(f.Parameters[i].Type) \o " "
                                \o f.Parameters[i].Name.Value], ", ")
        \o ")"

\* the methods of the program with a receiver (r *T)
Methods ==
    {i \in 1..Len(program) :
        /\ program[i].kind = "FunctionStatement"
        /\ program[i].Receiver # Nil
        /\ program[i].Receiver.Type.IsPtr}

\* the first line of the k-th section of the part
SectionHead(part, k) ==
    result[SelectSeq(sections, LAMBDA s : s.part = part)[k].from + 1]

\* the number of function statements among the first i statements
FunctionsUpTo(i) ==
    Cardinality({j \in 1..i : program[j].kind = "FunctionStatement"})

\* C12: for a method m with receiver (r *T) the forward declaration and the
\* definition carry the same signature: the lowered return type, the name T_m
\* and the parameters "T* r" followed by the declared parameters in order.
C12_MethodSignatureSameInDeclarationAndDefinition ==
    gpc = "done" =>
        \A i \in Methods :
            /\ SectionHead("functionDecl", FunctionsUpTo(i))
                    = MethodSignature(program[i]) \o ";"
            /\ SectionHead("function", FunctionsUpTo(i))
                    = MethodSignature(program[i]) \o " {"

\* a method with two declared parameters has been declared and defined
C12_Witness ==
    /\ gpc = "done"
    /\ \E i \in Methods :
          /\ Len(program[i].Parameters) = 2
          /\ SectionHead("functionDecl", FunctionsUpTo(i))
                = "h_string " \o program[i].Receiver.Type.Name
                    \o "_get(" \o program[i].Receiver.Type.Name \o "* "
                    \o program[i].Receiver.Name.Value \o ", h_string s, A* a);"
          /\ SectionHead("function", FunctionsUpTo(i))
                = "h_string " \o program[i].Receiver.Type.Name
                    \o "_get(" \o program[i].Receiver.Type.Name \o "* "
                    \o program[i].Receiver.Name.Value \o ", h_string s, A* a) {"

(***************************************************************************)
(* Properties of compile: one source text, one output.                     *)
(***************************************************************************)
\* C13: compiling the same source text again, with a fresh lexer, parser and
\* generator, yields the same C output (and the same diagnostics) as every
\* earlier compile of it.
C13_CompileIsDeterministic ==
    cpc = "done" => \A i \in 1..Len(previous) : compiled = previous[i]

(***************************************************************************)
(* Properties of the emitter: the order of the struct forward declarations.*)
(***************************************************************************)
\* the place of the first declaration of the struct in the program
DeclaredAt(name) ==
    CHOOSE i \in 1..Len(program) :
        /\ program[i].kind = "StructStatement" /\ program[i].Name.Value = name
        /\ \A j \in 1..(i - 1) :
              ~(program[j].kind = "StructStatement" /\ program[j].Name.Value = name)

\* C14: the "typedef struct Name Name;" lines are in the order in which the
\* structs are declared in the program.
C14_StructForwardInDeclarationOrder ==
    \A i \in 1..Len(sections), j \in 1..Len(sections) :
        (/\ i < j
         /\ sections[i].part = "structForward"
         /\ sections[j].part = "structForward")
            => DeclaredAt(sections[i].name) < DeclaredAt(sections[j].name)

(***************************************************************************)
(* Properties of the parser and the String methods together.               *)
(***************************************************************************)
\* C15: the String() of a tree parsed without diagnostics parses, without
\* diagnostics, to a tree equal to that tree.
C15_PrintedTreeParsesToItself ==
    (ppc \in {"done", "panicked", "stuck"} /\ printed # <<>>) =>
        /\ ppc = "done"
        /\ Len(parser.errors) = 0
        /\ parsed = printed[1]

(***************************************************************************)
(* Properties of the parser: unrecognized bytes.                           *)
(***************************************************************************)
\* C16: if the lexer has delivered an ILLEGAL token to the parser, ParseProgram
\* ends with a non-empty diagnostic list.
C16_IllegalTokenIsDiagnosed ==
    (ppc = "done" /\ parser.illegal) => Len(parser.errors) > 0

(***************************************************************************)
(* Properties of the parser: the optional semicolon.                       *)
(***************************************************************************)
\* C17: a statement that may end in ";", written without it and followed by "}"
\* or by a statement that begins with a keyword, parses without diagnostics to
\* the same tree as with the ";".
C17_SemicolonIsOptional ==
    ppc = "done" =>
        \A stmt \in Terminated, follower \in Followers :
            srcText = InBody(stmt, <<>>, follower) =>
                /\ Len(parser.errors) = 0
                /\ Len(ParseProgram(InBody(stmt, <<";">>, follower)).p.errors) = 0
                /\ parsed = ParseProgram(InBody(stmt, <<";">>, follower)).list

(***************************************************************************)
(* Properties of the parser: the classic for statement.                    *)
(***************************************************************************)
\* C18: a classic for statement parses without diagnostics into a
\* ForStatement for every combination of present or absent init, condition
\* and post, the absent parts nil and the present parts kept.
C18_ClassicForParsesInEveryCombination ==
    ppc = "done" =>
        \A init \in ForInits, condition \in ForConditions, post \in ForPosts :
            srcText = ForSource(init, condition, post) =>
                /\ Len(parser.errors) = 0
                /\ parsed = <<ForStatement(init.node, condition.node, post.node,
                                           BlockStatement(<<>>))>>

(***************************************************************************)
(* Properties of compile: the map runtime.                                 *)
(***************************************************************************)
\* the node or one below it is a map literal, a map type or a delete; len and
\* free on a map need a map declared by one of these
RECURSIVE UsesMap(_)
UsesMapAny(nodes) == \E i \in DOMAIN nodes : UsesMap(nodes[i])
UsesMap(node) ==
    CASE node.kind \in {"MapLiteral", "DeleteStatement"} -> TRUE
      [] node.kind = "TypeAnnotation" -> node.IsMap
      [] node.kind = "VarStatement" -> UsesMap(node.Type) \/ UsesMap(node.Value)
      [] node.kind \in {"ConstStatement", "InferStatement", "ReturnStatement",
                        "FreeStatement", "EnumValue"} -> UsesMap(node.Value)
      [] node.kind = "ExpressionStatement" -> UsesMap(node.Expression)
      [] node.kind = "BlockStatement" -> UsesMapAny(node.Statements)
      [] node.kind = "FunctionStatement" ->
            \/ UsesMap(node.Receiver) \/ UsesMapAny(node.Parameters)
            \/ UsesMap(node.ReturnType) \/ UsesMap(node.Body)
      [] node.kind \in {"Parameter", "StructField", "AllocExpression"} -> UsesMap(node.Type)
      [] node.kind = "StructStatement" -> UsesMapAny(node.Fields)
      [] node.kind = "EnumStatement" -> UsesMapAny(node.Values)
      [] node.kind = "IfStatement" ->
            \/ UsesMap(node.Condition) \/ UsesMap(node.Consequence)
            \/ UsesMap(node.Alternative)
      [] node.kind = "ForStatement" ->
            \/ UsesMap(node.Init) \/ UsesMap(node.Condition)
            \/ UsesMap(node.Post) \/ UsesMap(node.Body)
      [] node.kind = "WhileStatement" -> UsesMap(node.Condition) \/ UsesMap(node.Body)
      [] node.kind = "ForRangeStatement" -> UsesMap(node.Iterable) \/ UsesMap(node.Body)
      [] node.kind = "DeferStatement" -> UsesMap(node.Statement)
      [] node.kind = "PrefixExpression" -> UsesMap(node.Right)
      [] node.kind = "InfixExpression" -> UsesMap(node.Left) \/ UsesMap(node.Right)
      [] node.kind = "PostfixExpression" -> UsesMap(node.Left)
      [] node.kind = "CallExpression" -> UsesMap(node.Function) \/ UsesMapAny(node.Arguments)
      [] node.kind = "IndexExpression" -> UsesMap(node.Left) \/ UsesMap(node.Index)
      [] node.kind = "MemberExpression" -> UsesMap(node.Object)
      [] node.kind = "AssignExpression" -> UsesMap(node.Left) \/ UsesMap(node.Value)
      [] node.kind = "CastExpression" -> UsesMap(node.TargetType) \/ UsesMap(node.Value)
      [] node.kind = "ArrayLiteral" -> UsesMap(node.Type) \/ UsesMapAny(node.Elements)
      [] node.kind = "MakeExpression" ->
            \/ UsesMap(node.Type) \/ UsesMap(node.Length) \/ UsesMap(node.Capacity)
      [] OTHER -> FALSE

\* how the lines of the map runtime begin: the types and the six functions
MapRuntimeHeads ==
    {"typedef struct h_map_entry", "h_map* h_map_new()", "void h_map_set(h_map* m,",
     "void* h_map_get(h_map* m,", "void h_map_delete(h_map* m,", "int h_map_len(h_map* m)",
     "void h_map_free(h_map* m)"}

HasLine(code, head) == \E i \in DOMAIN code : HasPrefix(code[i], head)

\* C19: the map runtime is in the output if and only if the program uses a map.
C19_MapRuntimeIffMapUsed ==
    (cpc = "done" /\ Len(compiled.errors) = 0) =>
        /\ UsesMapAny(parsed) => \A head \in MapRuntimeHeads : HasLine(compiled.code, head)
        /\ ~UsesMapAny(parsed) => \A head \in MapRuntimeHeads : ~HasLine(compiled.code, head)

(***************************************************************************)
(* Properties of the emitter: the entry point.                             *)
(***************************************************************************)
\* the functions named main that have no receiver, return type or parameters
Mains ==
    {i \in 1..Len(program) :
        /\ program[i].kind = "FunctionStatement"
        /\ program[i].Name.Value = "main"
        /\ program[i].Receiver = Nil
        /\ program[i].ReturnType = Nil
        /\ Len(program[i].Parameters) = 0}

\* C20: a function main declared without return type and without parameters
\* is defined with the signature "int main(void)".
C20_MainIsDefinedAsIntMainVoid ==
    gpc = "done" =>
        \A i \in Mains : SectionHead("function", FunctionsUpTo(i)) = "int main(void) {"

(***************************************************************************)
(* Properties of compile: the text is C.                                   *)
(***************************************************************************)
\* the line without its indentation
RECURSIVE TrimLeft(_)
TrimLeft(line) == IF HasPrefix(line, " ") THEN TrimLeft(SubSeq(line, 2, Len(line))) ELSE line

\* the type specifiers typeToC writes for the built-in types
CTypeWords == {"int", "double", "h_string", "char", "bool", "void"}

\* "int[5] a;": in C the brackets of an array follow the declared name, and no
\* declaration or statement begins with a type specifier and "["
ArrayBeforeName(line) == \E t \in CTypeWords : HasPrefix(TrimLeft(line), t \o "[")

\* the net count of "{" over "}" in the text of the lines from i on
RECURSIVE OpenBraces(_, _)
OpenBraces(code, i) ==
    IF i > Len(code) THEN 0
    ELSE Cardinality({k \in 1..Len(code[i]) : SubSeq(code[i], k, k) = "{"})
            - Cardinality({k \in 1..Len(code[i]) : SubSeq(code[i], k, k) = "}"})
            + OpenBraces(code, i + 1)

\* C21: when compile returns no diagnostic, the text returned is a valid C99
\* translation unit.  Two conditions that every such unit meets stand for it:
\* the braces balance, and no line declares an array with the brackets before
\* the name.
C21_CompiledTextIsValidC ==
    (cpc = "done" /\ Len(compiled.errors) = 0) =>
        /\ OpenBraces(compiled.code, 1) = 0
        /\ \A i \in DOMAIN compiled.code : ~ArrayBeforeName(compiled.code[i])

\* the part of C21 that holds: the braces of the returned text balance
C21_BracesBalance ==
    (cpc = "done" /\ Len(compiled.errors) = 0) => OpenBraces(compiled.code, 1) = 0

(***************************************************************************)
(* Properties of the emitter: a function starts from nothing.              *)
(***************************************************************************)
\* the lines of the k-th section tagged part
SectionLines(part, k) ==
    With(SelectSeq(sections, LAMBDA s : s.part = part)[k], LAMBDA s :
        SubSeq(g.output, s.from + 1, s.to))

\* what generateFunction writes for f when no function was emitted before it:
\* a generator that knows the declarations and nothing else
EmittedAlone(f) ==
    generateFunction([NewGenerator EXCEPT !.structs = g.structs,
                                          !.functions = g.functions], f).output

\* C22: the symbol table and the deferred stack at the start of a function
\* hold nothing of the functions emitted before it.  The lines written for
\* each function are the lines the same function gets when it is emitted with
\* an empty table and an empty stack, whatever was emitted before it.
C22_FunctionStartsFromNothing ==
    gpc \in {"functions", "return", "done"} =>
        \A i \in 1..(IF gpc = "functions" THEN gidx - 1 ELSE Len(program)) :
            SectionLines("function", FunctionsUpTo(i)) = EmittedAlone(program[i])

\* a function that prints s and reads p.x without declaring them has been
\* emitted after one that declared s as a string and p as a pointer and
\* deferred a statement
C22_Witness ==
    /\ gpc = "done"
    /\ Len(program) >= 2
    /\ program[1] = ResetFunctions[1]
    /\ program[2] = ResetFunctions[2]
    /\ SectionLines("function", 2)
          = <<"void b(void) {", "    printf(\"%d\\n\", s);", "    p.x;", "}", "">>

(***************************************************************************)
(* Properties of the parser: a statement that fails.                       *)
(***************************************************************************)
\* a statement list of the tree holds a nil: a nil interface value or a nil
\* pointer in an interface value
RECURSIVE HoldsNilStatement(_)
HoldsNilStatementAny(stmts) == \E i \in DOMAIN stmts : HoldsNilStatement(stmts[i])
HoldsNilStatement(node) ==
    CASE node.kind \in {"nil", "typed nil"} -> TRUE
      [] node.kind = "BlockStatement" -> HoldsNilStatementAny(node.Statements)
      [] node.kind \in {"FunctionStatement", "ForStatement", "WhileStatement",
                        "ForRangeStatement"} ->
            node.Body # Nil /\ HoldsNilStatement(node.Body)
      [] node.kind = "IfStatement" ->
            \/ node.Consequence # Nil /\ HoldsNilStatement(node.Consequence)
            \/ node.Alternative # Nil /\ HoldsNilStatement(node.Alternative)
      [] OTHER -> FALSE

\* the statement is in the list of the program or in the body of its first
\* function
IsParsed(node) ==
    \/ \E i \in DOMAIN parsed : parsed[i] = node
    \/ /\ Len(parsed) > 0
       /\ parsed[1].kind = "FunctionStatement"
       /\ parsed[1].Body # Nil
       /\ \E i \in DOMAIN parsed[1].Body.Statements :
             parsed[1].Body.Statements[i] = node

\* the well-formed statement the source ends with
Following ==
    CHOOSE following \in FollowingStatements :
        \E failing \in FailingStatements :
            srcText \in {AtTopLevel(failing, following), InFunction(failing, following)}

\* C23: when a statement production fails, no node for it is appended to the
\* list being built, which holds non-nil statements only, and the well-formed
\* statement after it is still parsed.
C23_FailedStatementIsDropped ==
    ppc = "done" => ~HoldsNilStatementAny(parsed) /\ IsParsed(Following.node)

\* the part of C23 that holds: a diagnostic is recorded for the statement that
\* failed, and the statement after it is parsed
C23_LaterStatementIsParsed ==
    ppc = "done" => Len(parser.errors) > 0 /\ IsParsed(Following.node)

(***************************************************************************)
(* Properties of the parser: type annotations.                             *)
(***************************************************************************)
\* the type annotations a statement holds directly
AnnotationsOf(stmt) ==
    CASE stmt.kind = "VarStatement" -> {stmt.Type}
      [] stmt.kind = "FunctionStatement" ->
            {stmt.ReturnType} \cup {stmt.Parameters[i].Type : i \in DOMAIN stmt.Parameters}
      [] stmt.kind = "StructStatement" ->
            {stmt.Fields[i].Type : i \in DOMAIN stmt.Fields}
      [] OTHER -> {}

\* an annotation and the key and value types of a map
WithKeyAndValue(types) ==
    types \cup UNION {{t.KeyType, t.ValueType} : t \in {u \in types : u.kind = "TypeAnnotation"}}

\* every TypeAnnotation of the program, the key and value types of the maps
\* down to the depth the sources nest them
Annotations ==
    {t \in WithKeyAndValue(WithKeyAndValue(UNION {AnnotationsOf(parsed[i]) : i \in DOMAIN parsed})) :
        t.kind = "TypeAnnotation"}

\* the source puts '*' before an array or a map type
PointerBeforeArrayOrMap ==
    \E place \in TypePlaces :
        srcText \in {Unwords(place.before \o <<"*", "[", "5", "]", "int">> \o place.after),
                     Unwords(place.before \o <<"*", "map", "[", "string", "]", "int">>
                                \o place.after)}

\* C24: in a program parsed without a diagnostic a map annotation is not a
\* pointer and has array length 0, and no annotation is both a pointer and a
\* fixed-length array; "*[5]int" and "*map[string]int" get a diagnostic.
C24_TypeAnnotationShape ==
    ppc = "done" =>
        /\ Len(parser.errors) = 0 =>
              \A t \in Annotations :
                  /\ t.IsMap => ~t.IsPtr /\ t.ArrayLen = 0
                  /\ ~(t.IsPtr /\ t.ArrayLen > 0)
        /\ PointerBeforeArrayOrMap => Len(parser.errors) > 0

\* the part of C24 that holds: a map annotation has array length 0
C24_MapHasNoLength ==
    (ppc = "done" /\ Len(parser.errors) = 0) =>
        \A t \in Annotations : t.IsMap => t.ArrayLen = 0

(***************************************************************************)
(* Properties of the parser: for-range.                                    *)
(***************************************************************************)
\* the source is "for first, value := range ..."
RangeOver(first, value) ==
    \E iterable \in RangeIterables, body \in RangeBodies :
        srcText = RangeSource(first, value, iterable, body)

\* C25: "for _, v := range e { ... }" parses to a for-range statement whose
\* index is absent (nil) and whose value is the identifier v.
C25_BlankIndexIsAbsent ==
    ppc = "done" =>
        \A value \in RangeValues :
            RangeOver("_", value) =>
                /\ Len(parsed) = 1
                /\ parsed[1].kind = "ForRangeStatement"
                /\ parsed[1].Index = Nil
                /\ parsed[1].Value = Identifier(value)

\* the part of C25 that holds: one for-range statement, without a diagnostic,
\* whose value is the second identifier
C25_ValueIsSecondIdentifier ==
    ppc = "done" =>
        \A first \in RangeFirsts, value \in RangeValues :
            RangeOver(first, value) =>
                /\ Len(parser.errors) = 0
                /\ Len(parsed) = 1
                /\ parsed[1].kind = "ForRangeStatement"
                /\ parsed[1].Index = Identifier(first)
                /\ parsed[1].Value = Identifier(value)

(***************************************************************************)
(* Properties of the emitter: the symbol table.                            *)
(***************************************************************************)
\* the declaration the body of the function begins with
Declared == program[1].Body.Statements[1]

\* the symbol table maps the declared name to the C type of its value
RecordsDeclared ==
    /\ Declared.Name.Value \in DOMAIN g.variables
    /\ \E value \in DeclValues :
          /\ value.node = Declared.Value
          /\ g.variables[Declared.Name.Value] = value.cType

\* C26: after "const n := e" in a function body the symbol table maps n to
\* the inferred C type of e, as it does after "n := e".
C26_ConstIsRecorded ==
    gpc \in {"return", "done"} => RecordsDeclared

\* the part of C26 that holds: "n := e" is recorded, and the line written for
\* "const n := e" declares n with the inferred type
C26_InferIsRecorded ==
    gpc \in {"return", "done"} =>
        /\ Declared.kind = "InferStatement" => RecordsDeclared
        /\ Declared.kind = "ConstStatement" =>
              \E value \in DeclValues :
                  /\ value.node = Declared.Value
                  /\ HasPrefix(SectionLines("function", 1)[2],
                               "    const " \o value.cType \o " " \o Declared.Name.Value
                                   \o " = ")

\* the program is the one that takes the address of a variable of type t
AddressOf(t, names) ==
    \E place \in AddressPlaces : \E use \in DeclUses(names.p) :
        program = AddressProgram(place, t, names, use)

\* the lines of the function hold the declaration of name with the type cType
Declares(cType, name) ==
    \E i \in DOMAIN SectionLines("function", 1) :
        HasPrefix(SectionLines("function", 1)[i], "    " \o cType \o " " \o name \o " = ")

\* C27: for "p := &x" with x recorded as T the declaration emitted for p has
\* the type "T*" and the symbol table records p as "T*".
C27_AddressOfHasPointerType ==
    gpc \in {"return", "done"} =>
        \A t \in AddressTypes, names \in AddressNames :
            AddressOf(t, names) =>
                /\ Declares(t.cType \o "*", names.p)
                /\ names.p \in DOMAIN g.variables
                /\ g.variables[names.p] = t.cType \o "*"

\* the part of C27 that holds: p is declared and recorded with one and the
\* same type, which ends in "*"
C27_AddressOfIsSomePointer ==
    gpc \in {"return", "done"} =>
        \A t \in AddressTypes, names \in AddressNames :
            AddressOf(t, names) =>
                /\ names.p \in DOMAIN g.variables
                /\ Declares(g.variables[names.p], names.p)
                /\ HasSuffix(g.variables[names.p], "*")

(***************************************************************************)
(* Properties of the parser: comments.                                     *)
(***************************************************************************)
\* C28: after New and after every call of nextToken neither curToken nor
\* peekToken is a COMMENT, wherever the comments of the input stand.
C28_NoCommentToken ==
    ppc \in {"loop", "done"} =>
        /\ parser.curToken.Type # "COMMENT"
        /\ parser.peekToken.Type # "COMMENT"

\* three comments one after another were skipped: peekToken is the word after
\* them
C28_Witness ==
    /\ ppc = "loop"
    /\ srcText = CommentSource(2, "/* a */ /* b */ // c\n")
    /\ parser.curToken.Literal = ":="
    /\ parser.peekToken.Literal = "1"
    /\ parser.peekToken.Line = 2

(***************************************************************************)
(* Properties of the emitter: several returns.                             *)
(***************************************************************************)
\* the positions in h of the defer statements of the function body that stand
\* before the entry k
DefersBefore(h, k) ==
    SelectSeq([j \in 1..Len(h) |-> j],
              LAMBDA j : j < k /\ h[j].ev = "defer" /\ h[j].depth = 0)

\* what the entry k (a "return" or a "fall") emitted is what the defer
\* statements before it registered, last registered first
EmitsWhatStandsBefore(h, k) ==
    With(DirectEmits(h, k), LAMBDA em :
        With(DefersBefore(h, k), LAMBDA d :
        /\ Len(em) = Len(d)
        /\ \A m \in DOMAIN em : h[em[m]].stmt = h[d[Len(d) + 1 - m]].stmt))

\* the lines the entry e wrote for the deferred statements: all but the line
\* of the return and the line that captures its value
DeferredLines(e) ==
    [lo |-> IF e.ev = "return" /\ e.n > 0 /\ e.stmt.Value # Nil THEN e.from + 1 ELSE e.from,
     hi |-> IF e.ev = "return" THEN e.to - 1 ELSE e.to]

\* the defer statements of the body register only calls and frees
DefersCallsOnly(h) ==
    \A j \in DOMAIN h :
        h[j].ev = "defer" => h[j].stmt.kind \in {"ExpressionStatement", "FreeStatement"}

\* C29: the deferred statements are not consumed by a return: every return of
\* a function body and the end of the body is preceded by all the statements
\* deferred before it in the text, last registered first, and by no other.
C29_EveryReturnEmitsAllDeferredBefore ==
    \A k \in DOMAIN g.hist :
        (g.hist[k].ev \in {"return", "fall"} /\ g.hist[k].depth = 0) =>
            /\ EmitsWhatStandsBefore(g.hist, k)
            /\ EmitsAreLIFO(g.hist, k, DeferredLines(g.hist[k]).lo, DeferredLines(g.hist[k]).hi)
            /\ AllEmittedAsRegistered(g, k)

\* the part of C29 that holds: in a body whose defer statements register calls
\* and frees, every return and the end of the body emit what stands before them
C29_CallsAreNotConsumed ==
    DefersCallsOnly(g.hist) =>
        \A k \in DOMAIN g.hist :
            (g.hist[k].ev \in {"return", "fall"} /\ g.hist[k].depth = 0) =>
                /\ EmitsWhatStandsBefore(g.hist, k)
                /\ EmitsAreLIFO(g.hist, k, DeferredLines(g.hist[k]).lo,
                                DeferredLines(g.hist[k]).hi)
                /\ AllEmittedAsRegistered(g, k)

(***************************************************************************)
(* Properties of the emitter: top-level statements.                        *)
(***************************************************************************)
IsDeclaration(stmt) == stmt.kind \in {"StructStatement", "FunctionStatement"}

\* the struct and function declarations of a program, in its order
DeclarationsOf(stmts) == SelectSeq(stmts, IsDeclaration)

\* the names of the structs of a program
StructNames(stmts) ==
    {stmts[i].Name.Value : i \in {j \in DOMAIN stmts : stmts[j].kind = "StructStatement"}}

====
